---- MODULE Spec2Model ----
(***************************************************************************)
(* Model of odq-recruta-online: the SQLite result store                    *)
(* (database_manager.py), the curriculum analyzer (curriculum_analyzer.py) *)
(* and the IMAP client (email_client.py).                                  *)
(*                                                                         *)
(* Scores are kept in tenths (30 means 3.0).                               *)
(***************************************************************************)
EXTENDS Integers, Sequences, FiniteSets, TLC

VARIABLES
    db,        \* committed content of triagem_curriculos.db
    tx,        \* working copy of the connection that holds the write lock
    lock,      \* the process holding SQLite's write lock, or Livre
    agora,     \* CURRENT_TIMESTAMP, in days
    pc,        \* per process: position inside the handler it is running
    arg,       \* per process: argument of the handler it is running
    achado,    \* per process: the row id its SELECT returned
    ret,       \* per process: value returned by its last finished call
    ultima,    \* the last finished call: [op, arg, ret]
    ambiente,  \* the libraries curriculum_analyzer.py managed to import
    palavras_chave_default,   \* the analyzer's default keyword list
    entrada,   \* the arguments analisar_curriculo is called with
    disco,     \* the temporary files of the attachments, by path
    resultado, \* the value analisar_curriculo returned
    chamada,   \* the arguments _calcular_score_categoria is called with
    categoria, \* the value _calcular_score_categoria returned
    servidor,  \* the mailbox provider behind self.imap_server
    todos_emails,       \* the argument of buscar_emails_com_anexos
    etapa,     \* the position of buscar_emails_com_anexos in its code
    buscas,    \* the criteria of the SEARCH commands issued, in order
    message_numbers,    \* the message numbers the last SEARCH answered with
    message_list,       \* the message numbers the loop goes through
    posicao,   \* how many entries of message_list the loop has gone through
    comandos,  \* the FETCH commands issued for the latest message
    erro,      \* whether the processing of the latest message raised
    sondagens, \* how many BODYSTRUCTURE fetches were issued so far
    emails_processados, \* the messages collected so far
    retorno,   \* the value buscar_emails_com_anexos returned
    conexao,   \* the last call of conectar or desconectar: [op, ret]
    triagem_running,    \* st.session_state.triagem_running
    parada,    \* posicao when the stop of the run was requested, or SemParada
    lidas,     \* the numbers of the messages of the mailbox flagged \Seen
    relogio,   \* datetime.now(), in seconds
    temporarios         \* the files of the temporary directory: [caminho, numero, nome]

varsBanco == <<db, tx, lock, agora, pc, arg, achado, ret, ultima>>

varsCurriculo == <<ambiente, palavras_chave_default, entrada, disco, resultado>>

varsCategoria == <<chamada, categoria>>

varsAnalise == <<varsCurriculo, varsCategoria>>

varsCliente == <<conexao, triagem_running, parada>>

varsCaixa == <<lidas, relogio, temporarios>>

varsEmail == <<servidor, todos_emails, etapa, buscas, message_numbers, message_list,
               posicao, comandos, erro, sondagens, emails_processados, retorno,
               varsCliente, varsCaixa>>

vars == <<varsBanco, varsAnalise, varsEmail>>

\* Python None and SQL NULL where a row id is expected (row ids start at 1)
Nenhum == 0

----------------------------------------------------------------------------
(* Bounds and input sets *)

MaxId == 2          \* largest row id a table hands out
MaxAnexoId == 3     \* largest row id the table anexos hands out
MaxTempo == 1       \* largest value of the clock

Procs == {"p1", "p2"}

\* nobody holds the write lock
Livre == "livre"

NomesVaga == {"dev", "rh"}
ListasPalavras == {<<"python">>, <<"sql", "excel">>}

\* one analysed attachment, as analisar_curriculo reports it
Anexo(nome) ==
    [nome_arquivo |-> nome, tipo_arquivo |-> "pdf", tamanho_texto |-> 10,
     pontuacao |-> 30, palavras_encontradas |-> <<"curso">>]

UmAnexo == <<Anexo("cv.pdf")>>
DoisAnexos == <<Anexo("cv.pdf"), Anexo("carta.txt")>>

RECURSIVE Juntar(_)
\* ', '.join(nomes)
Juntar(nomes) ==
    IF nomes = <<>> THEN ""
    ELSE IF Len(nomes) = 1 THEN nomes[1]
    ELSE nomes[1] \o ", " \o Juntar(Tail(nomes))

\* a resultado dict as the pipeline hands it to the store: the message's
\* sender, subject and date, the status with its score, the analysed
\* attachments and the job the run was for
Resultado(e, a, d, s, p, l, v) ==
    [email_remetente |-> e, assunto |-> a, data_email |-> d,
     nome_arquivo |-> Juntar([i \in 1..Len(l) |-> l[i].nome_arquivo]),
     pontuacao |-> p, status |-> s, anexos_analisados |-> l, vaga_id |-> v]

Resultados ==
    { Resultado("ana@x.com", "cv", "seg", "Aprovado", 42, UmAnexo, 1),
      Resultado("ana@x.com", "cv", "seg", "Aprovado", 30, DoisAnexos, 1),
      Resultado("ana@x.com", "cv", "seg", "Revisar", 15, UmAnexo, 1),
      Resultado("ana@x.com", "cv", "seg", "Aprovado", 42, UmAnexo, Nenhum),
      Resultado("ana@x.com", "cv", "ter", "Aprovado", 42, UmAnexo, 1),
      Resultado("ana@x.com", "vaga", "seg", "Rejeitado", 14, DoisAnexos, 1),
      Resultado("bia@x.com", "cv", "seg", "Aprovado", 50, UmAnexo, 1),
      Resultado("bia@x.com", "cv", "seg", "Rejeitado", 0, DoisAnexos, Nenhum),
      Resultado("bia@x.com", "cv", "seg", "Erro", 0, <<>>, 1) }

----------------------------------------------------------------------------
(* CurriculumAnalyzer: text.  A text is a sequence of characters.          *)

\* unicodedata.normalize('NFD', c) of the precomposed characters: "e'" is an e
\* with an acute accent in one character, <<"e", "'">> an e followed by the
\* combining acute accent
Precompostos ==
    ("a'" :> <<"a", "'">> @@
     "a~" :> <<"a", "~">> @@
     "c," :> <<"c", ",">> @@
     "e'" :> <<"e", "'">> @@
     "e^" :> <<"e", "^">> @@
     "i'" :> <<"i", "'">>)

\* str.lower() of the upper-case characters
Minusculas ==
    ("A" :> "a" @@
     "B" :> "b" @@
     "C" :> "c" @@
     "D" :> "d" @@
     "E" :> "e" @@
     "F" :> "f" @@
     "G" :> "g" @@
     "H" :> "h" @@
     "I" :> "i" @@
     "J" :> "j" @@
     "K" :> "k" @@
     "L" :> "l" @@
     "M" :> "m" @@
     "N" :> "n" @@
     "O" :> "o" @@
     "P" :> "p" @@
     "Q" :> "q" @@
     "R" :> "r" @@
     "S" :> "s" @@
     "T" :> "t" @@
     "U" :> "u" @@
     "V" :> "v" @@
     "W" :> "w" @@
     "X" :> "x" @@
     "Y" :> "y" @@
     "Z" :> "z")

\* self.abreviacoes, in the order of the dict
abreviacoes ==
    << [abrev |-> <<"t", "s", "t">>,
        termos |-> << <<"t", "e'", "c", "n", "i", "c", "o", " ", "e", "m", " ", "s", "e", "g", "u", "r", "a", "n", "c,", "a", " ", "d", "o", " ", "t", "r", "a", "b", "a", "l", "h", "o">>,
                    <<"t", "e", "c", "n", "i", "c", "o", " ", "e", "m", " ", "s", "e", "g", "u", "r", "a", "n", "c", "a", " ", "d", "o", " ", "t", "r", "a", "b", "a", "l", "h", "o">>,
                    <<"s", "e", "g", "u", "r", "a", "n", "c,", "a", " ", "d", "o", " ", "t", "r", "a", "b", "a", "l", "h", "o">>,
                    <<"s", "e", "g", "u", "r", "a", "n", "c", "a", " ", "d", "o", " ", "t", "r", "a", "b", "a", "l", "h", "o">> >>],
       [abrev |-> <<"r", "h">>,
        termos |-> << <<"r", "e", "c", "u", "r", "s", "o", "s", " ", "h", "u", "m", "a", "n", "o", "s">>,
                    <<"g", "e", "s", "t", "a~", "o", " ", "d", "e", " ", "p", "e", "s", "s", "o", "a", "s">>,
                    <<"g", "e", "s", "t", "a", "o", " ", "d", "e", " ", "p", "e", "s", "s", "o", "a", "s">> >>],
       [abrev |-> <<"t", "i">>,
        termos |-> << <<"t", "e", "c", "n", "o", "l", "o", "g", "i", "a", " ", "d", "a", " ", "i", "n", "f", "o", "r", "m", "a", "c,", "a~", "o">>,
                    <<"t", "e", "c", "n", "o", "l", "o", "g", "i", "a", " ", "d", "a", " ", "i", "n", "f", "o", "r", "m", "a", "c", "a", "o">>,
                    <<"i", "n", "f", "o", "r", "m", "a", "t", "i", "c", "a">>,
                    <<"i", "n", "f", "o", "r", "m", "a'", "t", "i", "c", "a">> >>],
       [abrev |-> <<"a", "d", "m">>,
        termos |-> << <<"a", "d", "m", "i", "n", "i", "s", "t", "r", "a", "c,", "a~", "o">>,
                    <<"a", "d", "m", "i", "n", "i", "s", "t", "r", "a", "c", "a", "o">>,
                    <<"a", "d", "m", "i", "n", "i", "s", "t", "r", "a", "t", "i", "v", "o">> >>],
       [abrev |-> <<"e", "n", "g">>,
        termos |-> << <<"e", "n", "g", "e", "n", "h", "a", "r", "i", "a">>,
                    <<"e", "n", "g", "e", "n", "h", "e", "i", "r", "o">>,
                    <<"e", "n", "g", "e", "n", "h", "e", "i", "r", "a">> >>],
       [abrev |-> <<"t", "e", "c">>,
        termos |-> << <<"t", "e'", "c", "n", "i", "c", "o">>,
                    <<"t", "e", "c", "n", "i", "c", "o">>,
                    <<"t", "e", "c", "n", "o", "l", "o", "g", "i", "a">> >>],
       [abrev |-> <<"s", "u", "p">>,
        termos |-> << <<"s", "u", "p", "e", "r", "i", "o", "r">>,
                    <<"s", "u", "p", "e", "r", "v", "i", "s", "a~", "o">>,
                    <<"s", "u", "p", "e", "r", "v", "i", "s", "a", "o">>,
                    <<"s", "u", "p", "e", "r", "v", "i", "s", "o", "r">> >>],
       [abrev |-> <<"c", "o", "o", "r", "d">>,
        termos |-> << <<"c", "o", "o", "r", "d", "e", "n", "a", "c,", "a~", "o">>,
                    <<"c", "o", "o", "r", "d", "e", "n", "a", "c", "a", "o">>,
                    <<"c", "o", "o", "r", "d", "e", "n", "a", "d", "o", "r">> >>],
       [abrev |-> <<"g", "e", "r">>,
        termos |-> << <<"g", "e", "r", "e^", "n", "c", "i", "a">>,
                    <<"g", "e", "r", "e", "n", "c", "i", "a">>,
                    <<"g", "e", "r", "e", "n", "t", "e">> >>],
       [abrev |-> <<"d", "i", "r">>,
        termos |-> << <<"d", "i", "r", "e", "t", "o", "r", "i", "a">>,
                    <<"d", "i", "r", "e", "t", "o", "r">>,
                    <<"d", "i", "r", "e", "t", "o", "r", "a">> >>],
       [abrev |-> <<"a", "u", "x">>,
        termos |-> << <<"a", "u", "x", "i", "l", "i", "a", "r">>,
                    <<"a", "s", "s", "i", "s", "t", "e", "n", "t", "e">> >>],
       [abrev |-> <<"o", "p">>,
        termos |-> << <<"o", "p", "e", "r", "a", "c,", "a~", "o">>,
                    <<"o", "p", "e", "r", "a", "c", "a", "o">>,
                    <<"o", "p", "e", "r", "a", "d", "o", "r">> >>],
       [abrev |-> <<"p", "r", "o", "d">>,
        termos |-> << <<"p", "r", "o", "d", "u", "c,", "a~", "o">>,
                    <<"p", "r", "o", "d", "u", "c", "a", "o">>,
                    <<"p", "r", "o", "d", "u", "t", "o">> >>],
       [abrev |-> <<"q", "u", "a", "l">>,
        termos |-> << <<"q", "u", "a", "l", "i", "d", "a", "d", "e">>,
                    <<"c", "o", "n", "t", "r", "o", "l", "e", " ", "d", "e", " ", "q", "u", "a", "l", "i", "d", "a", "d", "e">> >>],
       [abrev |-> <<"s", "e", "g">>,
        termos |-> << <<"s", "e", "g", "u", "r", "a", "n", "c,", "a">>,
                    <<"s", "e", "g", "u", "r", "a", "n", "c", "a">> >>],
       [abrev |-> <<"a", "m", "b">>,
        termos |-> << <<"a", "m", "b", "i", "e", "n", "t", "a", "l">>,
                    <<"m", "e", "i", "o", " ", "a", "m", "b", "i", "e", "n", "t", "e">> >>],
       [abrev |-> <<"c", "o", "n", "t">>,
        termos |-> << <<"c", "o", "n", "t", "a", "b", "i", "l", "i", "d", "a", "d", "e">>,
                    <<"c", "o", "n", "t", "a", "d", "o", "r">>,
                    <<"c", "o", "n", "t", "a'", "b", "i", "l">>,
                    <<"c", "o", "n", "t", "a", "b", "i", "l">> >>],
       [abrev |-> <<"f", "i", "n">>,
        termos |-> << <<"f", "i", "n", "a", "n", "c", "e", "i", "r", "o">>,
                    <<"f", "i", "n", "a", "n", "c,", "a", "s">>,
                    <<"f", "i", "n", "a", "n", "c", "a", "s">> >>],
       [abrev |-> <<"c", "o", "m">>,
        termos |-> << <<"c", "o", "m", "e", "r", "c", "i", "a", "l">>,
                    <<"c", "o", "m", "e'", "r", "c", "i", "o">>,
                    <<"c", "o", "m", "e", "r", "c", "i", "o">>,
                    <<"v", "e", "n", "d", "a", "s">> >>],
       [abrev |-> <<"m", "k", "t">>,
        termos |-> << <<"m", "a", "r", "k", "e", "t", "i", "n", "g">>,
                    <<"m", "e", "r", "c", "a", "d", "o", "l", "o", "g", "i", "a">> >>],
       [abrev |-> <<"l", "o", "g">>,
        termos |-> << <<"l", "o", "g", "i'", "s", "t", "i", "c", "a">>,
                    <<"l", "o", "g", "i", "s", "t", "i", "c", "a">> >>] >>

\* self.palavras_chave_default as __init__ sets it
palavras_chave_iniciais ==
    << <<"e", "x", "p", "e", "r", "i", "e^", "n", "c", "i", "a">>,
      <<"e", "x", "p", "e", "r", "i", "e", "n", "c", "i", "a">>,
      <<"f", "o", "r", "m", "a", "c,", "a~", "o">>,
      <<"f", "o", "r", "m", "a", "c", "a", "o">>,
      <<"g", "r", "a", "d", "u", "a", "c,", "a~", "o">>,
      <<"g", "r", "a", "d", "u", "a", "c", "a", "o">>,
      <<"c", "u", "r", "s", "o">>,
      <<"h", "a", "b", "i", "l", "i", "d", "a", "d", "e", "s">>,
      <<"c", "o", "n", "h", "e", "c", "i", "m", "e", "n", "t", "o">>,
      <<"c", "o", "m", "p", "e", "t", "e^", "n", "c", "i", "a", "s">>,
      <<"c", "o", "m", "p", "e", "t", "e", "n", "c", "i", "a", "s">>,
      <<"p", "r", "o", "j", "e", "t", "o", "s">>,
      <<"t", "r", "a", "b", "a", "l", "h", "o">>,
      <<"t", "e'", "c", "n", "i", "c", "o">>,
      <<"t", "e", "c", "n", "i", "c", "o">> >>

formacao_keywords ==
    << <<"g", "r", "a", "d", "u", "a", "c,", "a~", "o">>,
      <<"b", "a", "c", "h", "a", "r", "e", "l", "a", "d", "o">>,
      <<"l", "i", "c", "e", "n", "c", "i", "a", "t", "u", "r", "a">>,
      <<"m", "e", "s", "t", "r", "a", "d", "o">>,
      <<"d", "o", "u", "t", "o", "r", "a", "d", "o">>,
      <<"t", "e'", "c", "n", "i", "c", "o">>,
      <<"s", "u", "p", "e", "r", "i", "o", "r">>,
      <<"u", "n", "i", "v", "e", "r", "s", "i", "d", "a", "d", "e">>,
      <<"f", "a", "c", "u", "l", "d", "a", "d", "e">>,
      <<"c", "u", "r", "s", "o">> >>

experiencia_keywords ==
    << <<"e", "x", "p", "e", "r", "i", "e^", "n", "c", "i", "a">>,
      <<"t", "r", "a", "b", "a", "l", "h", "o">>,
      <<"e", "m", "p", "r", "e", "g", "o">>,
      <<"f", "u", "n", "c,", "a~", "o">>,
      <<"c", "a", "r", "g", "o">>,
      <<"a", "t", "u", "a", "c,", "a~", "o">>,
      <<"a", "t", "i", "v", "i", "d", "a", "d", "e">>,
      <<"r", "e", "s", "p", "o", "n", "s", "a", "b", "i", "l", "i", "d", "a", "d", "e">>,
      <<"a", "n", "o">>,
      <<"a", "n", "o", "s">> >>

habilidades_keywords ==
    << <<"c", "o", "n", "h", "e", "c", "i", "m", "e", "n", "t", "o">>,
      <<"h", "a", "b", "i", "l", "i", "d", "a", "d", "e">>,
      <<"c", "o", "m", "p", "e", "t", "e^", "n", "c", "i", "a">>,
      <<"d", "o", "m", "i'", "n", "i", "o">>,
      <<"e", "x", "p", "e", "r", "i", "e^", "n", "c", "i", "a", " ", "e", "m">>,
      <<"t", "r", "a", "b", "a", "l", "h", "o", " ", "c", "o", "m">>,
      <<"u", "t", "i", "l", "i", "z", "a", "c,", "a~", "o">> >>

\* "Biblioteca PDF não disponível"
MensagemSemPDF ==
    <<"B", "i", "b", "l", "i", "o", "t", "e", "c", "a", " ", "P", "D", "F", " ", "n", "a~", "o", " ", "d", "i", "s", "p", "o", "n", "i'", "v", "e", "l">>

\* "Biblioteca DOCX não disponível"
MensagemSemDOCX ==
    <<"B", "i", "b", "l", "i", "o", "t", "e", "c", "a", " ", "D", "O", "C", "X", " ", "n", "a~", "o", " ", "d", "i", "s", "p", "o", "n", "i'", "v", "e", "l">>

\* "Arquivo DOC antigo - recomenda-se converter para DOCX"
MensagemDOC ==
    <<"A", "r", "q", "u", "i", "v", "o", " ", "D", "O", "C", " ", "a", "n", "t", "i", "g", "o", " ", "-", " ", "r", "e", "c", "o", "m", "e", "n", "d", "a", "-", "s", "e", " ", "c", "o", "n", "v", "e", "r", "t", "e", "r", " ", "p", "a", "r", "a", " ", "D", "O", "C", "X">>

\* the combining marks: unicodedata.category(c) = 'Mn'
Marcas == {"'", "^", "~", ","}

Decompor(c) == IF c \in DOMAIN Precompostos THEN Precompostos[c] ELSE <<c>>

RECURSIVE NFD(_)
\* unicodedata.normalize('NFD', texto)
NFD(texto) ==
    IF texto = <<>> THEN <<>> ELSE Decompor(Head(texto)) \o NFD(Tail(texto))

EhMarca(c) == c \in Marcas

NaoEhMarca(c) == c \notin Marcas

\* texto.lower()
lower(texto) ==
    [i \in 1..Len(texto) |->
        IF texto[i] \in DOMAIN Minusculas THEN Minusculas[texto[i]] ELSE texto[i]]

EhEspaco(c) == c \in {" ", "\\n"}

RECURSIVE lstrip(_)
lstrip(texto) ==
    IF texto # <<>> /\ EhEspaco(Head(texto)) THEN lstrip(Tail(texto)) ELSE texto

RECURSIVE rstrip(_)
rstrip(texto) ==
    IF texto # <<>> /\ EhEspaco(texto[Len(texto)])
    THEN rstrip(SubSeq(texto, 1, Len(texto) - 1)) ELSE texto

\* texto.strip()
strip(texto) == rstrip(lstrip(texto))

\* _normalizar_texto: NFD, drop the combining marks, lower-case
normalizar_texto(texto) == lower(SelectSeq(NFD(texto), NaoEhMarca))

\* sub in texto
Contem(texto, sub) ==
    \E i \in 0..(Len(texto) - Len(sub)) :
        \A j \in 1..Len(sub) : texto[i + j] = sub[j]

\* x in lista
Pertence(x, lista) == \E i \in 1..Len(lista) : lista[i] = x

RECURSIVE Concatenar(_)
Concatenar(listas) ==
    IF listas = <<>> THEN <<>> ELSE Head(listas) \o Concatenar(Tail(listas))

RECURSIVE SemDuplicatas(_)
\* keeps the first occurrence of every element
SemDuplicatas(lista) ==
    IF lista = <<>> THEN <<>>
    ELSE LET resto == SemDuplicatas(SubSeq(lista, 1, Len(lista) - 1))
             x == lista[Len(lista)]
         IN IF Pertence(x, resto) THEN resto ELSE Append(resto, x)

----------------------------------------------------------------------------
(* CurriculumAnalyzer: keywords and abbreviations *)

\* palavra_norm in self.abreviacoes
EhAbreviacao(palavra_norm) ==
    \E i \in 1..Len(abreviacoes) : abreviacoes[i].abrev = palavra_norm

\* self.abreviacoes[palavra_norm]
TermosDe(palavra_norm) ==
    IF EhAbreviacao(palavra_norm)
    THEN abreviacoes[CHOOSE i \in 1..Len(abreviacoes) :
                        abreviacoes[i].abrev = palavra_norm].termos
    ELSE <<>>

TermosNormalizados(palavra_norm) ==
    [i \in 1..Len(TermosDe(palavra_norm)) |-> normalizar_texto(TermosDe(palavra_norm)[i])]

\* the abbreviations one of whose full terms is the word
AbreviacoesDoTermo(palavra_norm) ==
    LET ComTermo(e) == \E k \in 1..Len(e.termos) :
                      normalizar_texto(e.termos[k]) = palavra_norm
        entradas == SelectSeq(abreviacoes, ComTermo)
    IN [i \in 1..Len(entradas) |-> entradas[i].abrev]

\* _expandir_palavras_chave
expandir_palavras_chave(palavras_chave) ==
    LET acrescimos ==
            [i \in 1..Len(palavras_chave) |->
                TermosDe(normalizar_texto(palavras_chave[i])) \o
                AbreviacoesDoTermo(normalizar_texto(palavras_chave[i]))]
    IN SemDuplicatas(palavras_chave \o Concatenar(acrescimos))

\* the expanded word is a full term of the keyword: one direction only
Relacionadas_SoExpansao(keyword_norm, palavra_exp_norm) ==
    /\ EhAbreviacao(keyword_norm)
    /\ Pertence(palavra_exp_norm, TermosNormalizados(keyword_norm))

\* lines 438-439: the expanded word is a full term of the keyword, or the
\* keyword a full term of the expanded word
Relacionadas(keyword_norm, palavra_exp_norm) ==
    \/ /\ EhAbreviacao(keyword_norm)
       /\ Pertence(palavra_exp_norm, TermosNormalizados(keyword_norm))
    \/ /\ EhAbreviacao(palavra_exp_norm)
       /\ Pertence(keyword_norm, TermosNormalizados(palavra_exp_norm))

\* a score of a text that is not a whole number of tenths: num/den tenths.
\* The code computes the scores of a text in floating point and rounds them
\* to one decimal; the fractions are exact, and the two agree on the keyword
\* lists and the texts drawn below.
Fracao(num, den) == [num |-> num, den |-> den]

MenorQue(f, g) == f.num * g.den < g.num * f.den

\* lines 426-441: the keyword or one of its variations is in the text
Encontrou(texto_normalizado, palavras_expandidas, keyword) ==
    \/ Contem(texto_normalizado, normalizar_texto(keyword))
    \/ \E i \in 1..Len(palavras_expandidas) :
          /\ Contem(texto_normalizado, normalizar_texto(palavras_expandidas[i]))
          /\ Relacionadas(normalizar_texto(keyword),
                          normalizar_texto(palavras_expandidas[i]))

\* lines 421-444: the keywords found, each once
PalavrasEncontradas(texto_normalizado, palavras_expandidas, keywords) ==
    LET encontrou(keyword) == Encontrou(texto_normalizado, palavras_expandidas, keyword)
    IN SemDuplicatas(SelectSeq(keywords, encontrou))

\* min(f, g)
MenorDe(f, g) == IF MenorQue(g, f) THEN g ELSE f

\* lines 446-454
ScoreDaCategoria(keywords, palavras_encontradas) ==
    [pontuacao |-> IF Len(keywords) > 0
                   THEN MenorDe(Fracao(100 * Len(palavras_encontradas), Len(keywords)),
                                Fracao(100, 1))
                   ELSE Fracao(0, 1),
     palavras_encontradas |-> palavras_encontradas,
     total_palavras_categoria |-> Len(keywords)]

\* _calcular_score_categoria
calcular_score_categoria(texto, keywords) ==
    ScoreDaCategoria(keywords,
                     PalavrasEncontradas(normalizar_texto(texto),
                                         expandir_palavras_chave(keywords), keywords))

RECURSIVE Somar(_)
Somar(numeros) == IF numeros = <<>> THEN 0 ELSE Head(numeros) + Somar(Tail(numeros))

\* lines 477-495, in tenths: 10 for the keyword itself found in the text, 7
\* for one of its full terms found, 0 otherwise
CorrespondenciaDaNorma(texto, palavra_norm) ==
    IF Contem(texto, palavra_norm) THEN 10
    ELSE IF \E i \in 1..Len(TermosDe(palavra_norm)) :
                Contem(texto, normalizar_texto(TermosDe(palavra_norm)[i])) THEN 7
    ELSE 0

\* what one keyword adds to correspondencias
Correspondencia(texto, palavra_chave) ==
    CorrespondenciaDaNorma(texto, normalizar_texto(strip(palavra_chave)))

\* _verificar_correspondencia_vaga; texto is used as it is passed in
verificar_correspondencia_vaga(texto, palavras_chave_vaga) ==
    IF palavras_chave_vaga = <<>> THEN Fracao(0, 1)
    ELSE Fracao(10 * Somar([i \in 1..Len(palavras_chave_vaga) |->
                               Correspondencia(texto, palavras_chave_vaga[i])]),
                Len(palavras_chave_vaga))

\* round(x, 1) of the score of num/den tenths, in tenths (a tie goes to the
\* even tenth)
round1(num, den) ==
    LET q == num \div den
        r == num % den
    IN IF 2 * r > den THEN q + 1
       ELSE IF 2 * r < den THEN q
       ELSE IF q % 2 = 0 THEN q ELSE q + 1

\* palavras_chave[:5]
Primeiras(lista, n) == SubSeq(lista, 1, IF Len(lista) < n THEN Len(lista) ELSE n)

\* (a + b + c) / 3
Media3(a, b, c) ==
    Fracao(a.num * b.den * c.den + b.num * a.den * c.den + c.num * a.den * b.den,
           3 * a.den * b.den * c.den)

\* (vaga * 0.7) + (geral * 0.3)
Ponderar(vaga, geral) ==
    Fracao(7 * vaga.num * geral.den + 3 * geral.num * vaga.den,
           10 * vaga.den * geral.den)

\* round(pontuacao, 1), in tenths
Arredondar(pontuacao) == round1(pontuacao.num, pontuacao.den)

\* lines 332-341: the analysis of a text the relevance filter rejects
AnaliseRejeitada(palavras_chave, correspondencia_minima) ==
    [pontuacao |-> 0,
     palavras_encontradas |-> <<>>,
     detalhes |-> [motivo_rejeicao |-> Arredondar(correspondencia_minima),
                   analise_rejeicao |-> "sem palavras-chave suficientes",
                   palavras_buscadas |-> Primeiras(palavras_chave, 5),
                   correspondencia_score |-> correspondencia_minima]]

\* lines 364-369 and 408-413: the analysis without keywords of a job
AnaliseGeral(formacao_score, experiencia_score, habilidades_score) ==
    [pontuacao |-> Arredondar(Media3(formacao_score.pontuacao,
                                     experiencia_score.pontuacao,
                                     habilidades_score.pontuacao)),
     palavras_encontradas |-> formacao_score.palavras_encontradas \o
                              experiencia_score.palavras_encontradas \o
                              habilidades_score.palavras_encontradas,
     detalhes |-> [formacao |-> formacao_score,
                   experiencia |-> experiencia_score,
                   habilidades |-> habilidades_score]]

\* lines 370-378 and 408-413: the analysis with the keywords of a job
AnaliseDaVaga(vaga_score, formacao_score, experiencia_score, habilidades_score) ==
    [pontuacao |-> Arredondar(Ponderar(vaga_score.pontuacao,
                                       Media3(formacao_score.pontuacao,
                                              experiencia_score.pontuacao,
                                              habilidades_score.pontuacao))),
     palavras_encontradas |-> vaga_score.palavras_encontradas \o
                              formacao_score.palavras_encontradas \o
                              experiencia_score.palavras_encontradas \o
                              habilidades_score.palavras_encontradas,
     detalhes |-> [palavras_chave_vaga |-> vaga_score,
                   formacao |-> formacao_score,
                   experiencia |-> experiencia_score,
                   habilidades |-> habilidades_score]]

\* _analisar_texto; padrao is self.palavras_chave_default.  No ai_analyzer
\* module is part of the repository, so self.ai_analyzer is None.
analisar_texto(texto, palavras_chave, padrao) ==
    IF /\ palavras_chave # padrao
       /\ MenorQue(verificar_correspondencia_vaga(lower(texto), palavras_chave),
                   Fracao(20, 1))
    THEN AnaliseRejeitada(palavras_chave,
                          verificar_correspondencia_vaga(lower(texto), palavras_chave))
    ELSE IF palavras_chave = padrao
    THEN AnaliseGeral(calcular_score_categoria(lower(texto), formacao_keywords),
                      calcular_score_categoria(lower(texto), experiencia_keywords),
                      calcular_score_categoria(lower(texto), habilidades_keywords))
    ELSE AnaliseDaVaga(calcular_score_categoria(lower(texto), palavras_chave),
                       calcular_score_categoria(lower(texto), formacao_keywords),
                       calcular_score_categoria(lower(texto), experiencia_keywords),
                       calcular_score_categoria(lower(texto), habilidades_keywords))

----------------------------------------------------------------------------
(* CurriculumAnalyzer: text extraction.  The disk maps the path of a       *)
(* temporary file to [legivel, partes]: whether the file can be opened and *)
(* parsed, and the pages of a PDF, the paragraphs of a DOCX or the content *)
(* of a text file.                                                         *)

Existe(d, caminho) == caminho \in DOMAIN d

\* os.remove(caminho)
Remover(d, caminho) == [c \in DOMAIN d \ {caminho} |-> d[c]]

NovaLinha == <<"\\n">>

NaoVazia(texto) == texto # <<>>

\* texto += parte + "\n" for every part
ComNovaLinha(partes) ==
    Concatenar([i \in 1..Len(partes) |-> partes[i] \o NovaLinha])

\* _extrair_texto_pdf: pdfplumber skips the pages without text
extrair_texto_pdf(d, caminho, amb) ==
    IF ~amb.PDF_DISPONIVEL THEN MensagemSemPDF
    ELSE IF ~Existe(d, caminho) \/ ~d[caminho].legivel THEN <<>>
    ELSE IF amb.USAR_PDFPLUMBER
         THEN ComNovaLinha(SelectSeq(d[caminho].partes, NaoVazia))
         ELSE ComNovaLinha(d[caminho].partes)

\* _extrair_texto_docx
extrair_texto_docx(d, caminho, amb) ==
    IF ~amb.DOCX_DISPONIVEL THEN MensagemSemDOCX
    ELSE IF ~Existe(d, caminho) \/ ~d[caminho].legivel THEN <<>>
    ELSE ComNovaLinha(d[caminho].partes)

\* _extrair_texto_doc
extrair_texto_doc(d, caminho) == MensagemDOC

\* _extrair_texto_txt
extrair_texto_txt(d, caminho) ==
    IF ~Existe(d, caminho) \/ ~d[caminho].legivel THEN <<>>
    ELSE Concatenar(d[caminho].partes)

\* _extrair_texto
extrair_texto(d, caminho_arquivo, tipo, amb) ==
    CASE tipo = "pdf" -> extrair_texto_pdf(d, caminho_arquivo, amb)
      [] tipo = "docx" -> extrair_texto_docx(d, caminho_arquivo, amb)
      [] tipo = "doc" -> extrair_texto_doc(d, caminho_arquivo)
      [] tipo = "txt" -> extrair_texto_txt(d, caminho_arquivo)
      [] OTHER -> <<>>

\* lines 186-193: no text was extracted
AnexoSemTexto(d, anexo) ==
    [resultado |-> [nome_arquivo |-> anexo.nome_original,
                    texto_extraido |-> FALSE,
                    pontuacao |-> 0,
                    palavras_encontradas |-> <<>>,
                    erro |-> "Nao foi possivel extrair texto"],
     disco |-> d]

\* lines 197-213: the analysed attachment; its temporary file is removed
AnexoAnalisado(d, anexo, texto_extraido, analise) ==
    [resultado |-> [nome_arquivo |-> anexo.nome_original,
                    tipo_arquivo |-> anexo.tipo,
                    tamanho_texto |-> Len(texto_extraido),
                    texto_extraido |-> TRUE,
                    pontuacao |-> analise.pontuacao,
                    palavras_encontradas |-> analise.palavras_encontradas,
                    detalhes |-> analise.detalhes],
     disco |-> Remover(d, anexo.caminho_temp)]

\* lines 186-213, for the text extracted
AnalisarExtraido(d, anexo, texto_extraido, palavras_chave_vaga, padrao) ==
    IF texto_extraido = <<>> THEN AnexoSemTexto(d, anexo)
    ELSE AnexoAnalisado(d, anexo, texto_extraido,
                        analisar_texto(texto_extraido, palavras_chave_vaga, padrao))

\* _analisar_arquivo: the result for the attachment and the disk afterwards
analisar_arquivo(d, anexo, palavras_chave_vaga, padrao, amb) ==
    AnalisarExtraido(d, anexo, extrair_texto(d, anexo.caminho_temp, anexo.tipo, amb),
                     palavras_chave_vaga, padrao)

RECURSIVE AnalisarAnexos(_, _, _, _, _, _)
RECURSIVE Acumular(_, _, _, _, _, _)
\* lines 129-132: the loop over the attachments, in order; feitos are the
\* results of the attachments analysed so far
AnalisarAnexos(d, anexos, feitos, palavras_chave, padrao, amb) ==
    IF anexos = <<>> THEN [resultados_anexos |-> feitos, disco |-> d]
    ELSE Acumular(analisar_arquivo(d, Head(anexos), palavras_chave, padrao, amb),
                  Tail(anexos), feitos, palavras_chave, padrao, amb)

\* resultados_anexos.append(resultado_anexo)
Acumular(analisado, anexos, feitos, palavras_chave, padrao, amb) ==
    AnalisarAnexos(analisado.disco, anexos, Append(feitos, analisado.resultado),
                   palavras_chave, padrao, amb)

----------------------------------------------------------------------------
(* The floats of the message score.  A float of the range of the scores is *)
(* kept as its binary expansion in four parts: the whole part, of          *)
(* BitsInteiros bits, and three parts of BitsDaParte bits after the binary *)
(* point.  The places of the expansion are numbered from the first bit of  *)
(* the whole part.  A float has 53 significant bits; every operation       *)
(* rounds its exact result to the nearest float, a tie to the even one.    *)

BitsInteiros == 7
BitsDaParte == 20
Base == 2 ^ BitsDaParte
Largura == BitsInteiros + 3 * BitsDaParte
Significativos == 53

\* the float of a whole number below 2 ^ BitsInteiros
DeInteiro(n) == <<n, 0, 0, 0>>

Zero == DeInteiro(0)

\* the part a place is in, and the last place of a part
ParteDe(p) == IF p <= BitsInteiros THEN 1 ELSE (p - BitsInteiros - 1) \div BitsDaParte + 2
UltimoDe(parte) == BitsInteiros + (parte - 1) * BitsDaParte

\* the bit in the place p
Bit(a, p) == (a[ParteDe(p)] \div (2 ^ (UltimoDe(ParteDe(p)) - p))) % 2

\* the carry out of the part l of a sum
Vai(a, b, l) ==
    IF l = 4 THEN (a[4] + b[4]) \div Base
    ELSE IF l = 3 THEN (a[3] + b[3] + (a[4] + b[4]) \div Base) \div Base
    ELSE (a[2] + b[2] + (a[3] + b[3] + (a[4] + b[4]) \div Base) \div Base) \div Base

\* the exact sum of two expansions
SomaExata(a, b) ==
    <<a[1] + b[1] + Vai(a, b, 2),
      (a[2] + b[2] + Vai(a, b, 3)) % Base,
      (a[3] + b[3] + Vai(a, b, 4)) % Base,
      (a[4] + b[4]) % Base>>

\* what the parts up to l leave when divided by n
Resto(a, n, l) ==
    IF l = 1 THEN a[1] % n
    ELSE IF l = 2 THEN ((a[1] % n) * Base + a[2]) % n
    ELSE IF l = 3 THEN ((((a[1] % n) * Base + a[2]) % n) * Base + a[3]) % n
    ELSE ((((((a[1] % n) * Base + a[2]) % n) * Base + a[3]) % n) * Base + a[4]) % n

\* the quotient of an expansion by a whole number, cut after Largura places,
\* and whether bits were cut
QuocienteExato(a, n) ==
    [bits |-> <<a[1] \div n,
                (Resto(a, n, 1) * Base + a[2]) \div n,
                (Resto(a, n, 2) * Base + a[3]) \div n,
                (Resto(a, n, 3) * Base + a[4]) \div n>>,
     cortado |-> Resto(a, n, 4) # 0]

\* the place of the first significant bit
Primeiro(a) ==
    IF \E p \in 1..Largura : Bit(a, p) = 1
    THEN CHOOSE p \in 1..Largura :
             Bit(a, p) = 1 /\ \A j \in 1..(p - 1) : Bit(a, j) = 0
    ELSE Largura

\* the part l of one unit in the place k
UnidadeDaParte(k, l) == IF l = ParteDe(k) THEN 2 ^ (UltimoDe(l) - k) ELSE 0

\* one unit in the place k
Unidade(k) ==
    <<UnidadeDaParte(k, 1), UnidadeDaParte(k, 2), UnidadeDaParte(k, 3),
      UnidadeDaParte(k, 4)>>

\* the part l of an expansion with the places after k cleared
ParteTruncada(a, k, l) ==
    IF l < ParteDe(k) THEN a[l]
    ELSE IF l > ParteDe(k) THEN 0
    ELSE a[l] - (a[l] % (2 ^ (UltimoDe(l) - k)))

\* the expansion with the places after k cleared
Truncar(a, k) ==
    <<ParteTruncada(a, k, 1), ParteTruncada(a, k, 2), ParteTruncada(a, k, 3),
      ParteTruncada(a, k, 4)>>

\* the nearest float of an expansion whose last significant place is k
ArredondarEm(a, cortado, k) ==
    IF k >= Largura THEN a
    ELSE IF /\ Bit(a, k + 1) = 1
            /\ \/ cortado
               \/ \E j \in (k + 2)..Largura : Bit(a, j) = 1
               \/ Bit(a, k) = 1
    THEN SomaExata(Truncar(a, k), Unidade(k))
    ELSE Truncar(a, k)

\* the nearest float of an exact result
Flutuante(a, cortado) == ArredondarEm(a, cortado, Primeiro(a) + Significativos - 1)

\* the nearest float of a quotient
FlutuanteDe(quociente) == Flutuante(quociente.bits, quociente.cortado)

\* the float of a score of so many tenths: round(x, 1)
DeDecimos(decimos) == FlutuanteDe(QuocienteExato(DeInteiro(decimos), 10))

\* a + b
Mais(a, b) == Flutuante(SomaExata(a, b), FALSE)

\* a / n
Dividido(a, n) == FlutuanteDe(QuocienteExato(a, n))

\* a >= b
MaiorOuIgual(a, b) ==
    \/ a = b
    \/ \E l \in 1..4 : a[l] > b[l] /\ \A j \in 1..(l - 1) : a[j] = b[j]

----------------------------------------------------------------------------
(* analisar_curriculo: the score and the status of the message *)

\* a > b
Maior(a, b) == MaiorOuIgual(a, b) /\ a # b

\* the status of a message whose mean score exceeds the thresholds
StatusDaMedia_Estrito(pontuacao_media) ==
    IF Maior(pontuacao_media, DeDecimos(30)) THEN "Aprovado"
    ELSE IF Maior(pontuacao_media, DeDecimos(15)) THEN "Revisar"
    ELSE "Rejeitado"

\* lines 137-142: the status of a message from its mean score
StatusDaMedia(pontuacao_media) ==
    IF MaiorOuIgual(pontuacao_media, DeDecimos(30)) THEN "Aprovado"
    ELSE IF MaiorOuIgual(pontuacao_media, DeDecimos(15)) THEN "Revisar"
    ELSE "Rejeitado"

RECURSIVE PontuacaoTotal(_, _)
\* lines 127 and 132: pontuacao_total after the first n attachments, each
\* score, of so many tenths, added as the float it is
PontuacaoTotal(resultados_anexos, n) ==
    IF n = 0 THEN Zero
    ELSE Mais(PontuacaoTotal(resultados_anexos, n - 1),
              DeDecimos(resultados_anexos[n].pontuacao))

\* lines 134-135: the mean of the scores of the attachments
PontuacaoMedia(resultados_anexos) ==
    IF Len(resultados_anexos) > 0
    THEN Dividido(PontuacaoTotal(resultados_anexos, Len(resultados_anexos)),
                  Len(resultados_anexos))
    ELSE Zero

\* lines 157-166: the result when the analysis raises
ResultadoDeErro(d, email_data, t) ==
    [resultado |-> [data |-> t,
                    email_remetente |-> email_data.remetente,
                    assunto |-> email_data.assunto,
                    pontuacao |-> Zero,
                    status |-> "Erro",
                    erro |-> "'NoneType' object is not iterable",
                    nome_arquivo |-> "Erro na analise"],
     disco |-> d]

\* lines 134-155: the result of the message from those of its attachments
ResultadoDoEmail(email_data, laco, t) ==
    [resultado |-> [data |-> t,
                    email_remetente |-> email_data.remetente,
                    assunto |-> email_data.assunto,
                    data_email |-> email_data.data,
                    anexos_analisados |-> laco.resultados_anexos,
                    pontuacao |-> PontuacaoMedia(laco.resultados_anexos),
                    status |-> StatusDaMedia(PontuacaoMedia(laco.resultados_anexos)),
                    nome_arquivo |->
                        Juntar([i \in 1..Len(email_data.anexos) |->
                                   email_data.anexos[i].nome_original])],
     disco |-> laco.disco]

\* line 124: the keywords of the job, or the default ones for None and []
PalavrasChave(palavras_chave_vaga, padrao) ==
    IF palavras_chave_vaga.fornecida /\ palavras_chave_vaga.lista # <<>>
    THEN palavras_chave_vaga.lista ELSE padrao

\* the value analisar_curriculo returns and the disk afterwards.  A job
\* keyword list is [fornecida, lista]: not fornecida is None.  An email
\* whose anexos is None (anexos_none) makes the loop raise.
AnaliseDoCurriculo(d, email_data, palavras_chave_vaga, padrao, amb, t) ==
    IF email_data.anexos_none THEN ResultadoDeErro(d, email_data, t)
    ELSE ResultadoDoEmail(email_data,
                          AnalisarAnexos(d, email_data.anexos, <<>>,
                                         PalavrasChave(palavras_chave_vaga, padrao),
                                         padrao, amb),
                          t)

----------------------------------------------------------------------------
(* CurriculumAnalyzer: the inputs of the model *)

\* "curso cargo conhecimento habilidade competência domínio utilização"
TextoTres ==
    <<"c", "u", "r", "s", "o", " ", "c", "a", "r", "g", "o", " ", "c", "o", "n", "h", "e", "c", "i", "m", "e", "n", "t", "o", " ", "h", "a", "b", "i", "l", "i", "d", "a", "d", "e", " ", "c", "o", "m", "p", "e", "t", "e^", "n", "c", "i", "a", " ", "d", "o", "m", "i'", "n", "i", "o", " ", "u", "t", "i", "l", "i", "z", "a", "c,", "a~", "o">>

\* "curso cargo emprego conhecimento habilidade competência domínio"
TextoQuaseTres ==
    <<"c", "u", "r", "s", "o", " ", "c", "a", "r", "g", "o", " ", "e", "m", "p", "r", "e", "g", "o", " ", "c", "o", "n", "h", "e", "c", "i", "m", "e", "n", "t", "o", " ", "h", "a", "b", "i", "l", "i", "d", "a", "d", "e", " ", "c", "o", "m", "p", "e", "t", "e^", "n", "c", "i", "a", " ", "d", "o", "m", "i'", "n", "i", "o">>

\* "Técnico em Segurança do Trabalho"
TextoAcentuado ==
    <<"T", "e'", "c", "n", "i", "c", "o", " ", "e", "m", " ", "S", "e", "g", "u", "r", "a", "n", "c,", "a", " ", "d", "o", " ", "T", "r", "a", "b", "a", "l", "h", "o">>

\* "tecnico em seguranca do trabalho"
TextoSemAcento ==
    <<"t", "e", "c", "n", "i", "c", "o", " ", "e", "m", " ", "s", "e", "g", "u", "r", "a", "n", "c", "a", " ", "d", "o", " ", "t", "r", "a", "b", "a", "l", "h", "o">>

\* "analista de TI e RH"
TextoSiglas ==
    <<"a", "n", "a", "l", "i", "s", "t", "a", " ", "d", "e", " ", "T", "I", " ", "e", " ", "R", "H">>

\* "formação técnica (decomposed)"
TextoDecomposto ==
    <<"f", "o", "r", "m", "a", "c", ",", "a", "~", "o", " ", "t", "e", "'", "c", "n", "i", "c", "a">>

\* "universidade faculdade mestrado doutorado bacharelado"
TextoFormacao ==
    <<"u", "n", "i", "v", "e", "r", "s", "i", "d", "a", "d", "e", " ", "f", "a", "c", "u", "l", "d", "a", "d", "e", " ", "m", "e", "s", "t", "r", "a", "d", "o", " ", "d", "o", "u", "t", "o", "r", "a", "d", "o", " ", "b", "a", "c", "h", "a", "r", "e", "l", "a", "d", "o">>

\* "conhecimento habilidade competência"
TextoUmQuatro ==
    <<"c", "o", "n", "h", "e", "c", "i", "m", "e", "n", "t", "o", " ", "h", "a", "b", "i", "l", "i", "d", "a", "d", "e", " ", "c", "o", "m", "p", "e", "t", "e^", "n", "c", "i", "a">>

\* "curso faculdade cargo emprego conhecimento habilidade competência"
TextoDoisOito ==
    <<"c", "u", "r", "s", "o", " ", "f", "a", "c", "u", "l", "d", "a", "d", "e", " ", "c", "a", "r", "g", "o", " ", "e", "m", "p", "r", "e", "g", "o", " ", "c", "o", "n", "h", "e", "c", "i", "m", "e", "n", "t", "o", " ", "h", "a", "b", "i", "l", "i", "d", "a", "d", "e", " ", "c", "o", "m", "p", "e", "t", "e^", "n", "c", "i", "a">>

\* "curso"
TextoZeroTres ==
    <<"c", "u", "r", "s", "o">>

ListaSiglas ==
    << <<"t", "i">>,
      <<"r", "h">> >>

ListaSeguranca ==
    << <<"s", "e", "g", "u", "r", "a", "n", "c,", "a">>,
      <<"t", "e'", "c", "n", "i", "c", "o">>,
      <<"e", "x", "c", "e", "l">> >>

ListaEspacos ==
    << <<" ", "T", "e", "c", "n", "o", "l", "o", "g", "i", "a", " ", "d", "a", " ", "I", "n", "f", "o", "r", "m", "a", "c,", "a~", "o", " ">>,
      <<"t", "r", "a", "b", "a", "l", "h", "o">> >>

MaxAnexos == 3      \* largest number of attachments of a message

\* PDF_DISPONIVEL, USAR_PDFPLUMBER and DOCX_DISPONIVEL as the imports at the
\* top of the module leave them
Ambientes ==
    {[PDF_DISPONIVEL |-> pdf[1], USAR_PDFPLUMBER |-> pdf[2], DOCX_DISPONIVEL |-> docx] :
        pdf \in {<<TRUE, FALSE>>, <<TRUE, TRUE>>, <<FALSE, FALSE>>}, docx \in BOOLEAN}

AmbienteCompleto ==
    [PDF_DISPONIVEL |-> TRUE, USAR_PDFPLUMBER |-> FALSE, DOCX_DISPONIVEL |-> TRUE]

Arquivo(legivel, partes) == [legivel |-> legivel, partes |-> partes]

\* an attachment as _extrair_anexos hands it over
AnexoExtraido(nome, tipo) ==
    [nome_original |-> nome, tipo |-> tipo, caminho_temp |-> "/tmp/" \o nome]

\* the temporary files of the model
Disco ==
    ("/tmp/tres.txt" :> Arquivo(TRUE, <<TextoTres>>)) @@
    ("/tmp/quase.txt" :> Arquivo(TRUE, <<TextoQuaseTres>>)) @@
    ("/tmp/acentuado.txt" :> Arquivo(TRUE, <<TextoAcentuado>>)) @@
    ("/tmp/sem_acento.txt" :> Arquivo(TRUE, <<TextoSemAcento>>)) @@
    ("/tmp/formacao.txt" :> Arquivo(TRUE, <<TextoFormacao>>)) @@
    ("/tmp/um_quatro.txt" :> Arquivo(TRUE, <<TextoUmQuatro>>)) @@
    ("/tmp/dois_oito.txt" :> Arquivo(TRUE, <<TextoDoisOito>>)) @@
    ("/tmp/zero_tres.txt" :> Arquivo(TRUE, <<TextoZeroTres>>)) @@
    ("/tmp/siglas.pdf" :> Arquivo(TRUE, <<TextoSiglas, <<>> >>)) @@
    ("/tmp/imagem.pdf" :> Arquivo(TRUE, << <<>> >>)) @@
    ("/tmp/corrompido.pdf" :> Arquivo(FALSE, <<>>)) @@
    ("/tmp/decomposto.docx" :> Arquivo(TRUE, <<TextoDecomposto>>)) @@
    ("/tmp/antigo.doc" :> Arquivo(TRUE, <<TextoTres>>)) @@
    ("/tmp/foto.jpg" :> Arquivo(TRUE, <<>>)) @@
    ("/tmp/tres.docx" :> Arquivo(TRUE, <<TextoTres>>))

Email(remetente, anexos) ==
    [remetente |-> remetente, assunto |-> "curriculo", data |-> "seg",
     anexos |-> anexos, anexos_none |-> FALSE]

ListasDeAnexos ==
    { <<>>,
      <<AnexoExtraido("tres.txt", "txt")>>,
      <<AnexoExtraido("quase.txt", "txt")>>,
      <<AnexoExtraido("acentuado.txt", "txt")>>,
      <<AnexoExtraido("sem_acento.txt", "txt")>>,
      <<AnexoExtraido("formacao.txt", "txt")>>,
      <<AnexoExtraido("siglas.pdf", "pdf")>>,
      <<AnexoExtraido("imagem.pdf", "pdf")>>,
      <<AnexoExtraido("decomposto.docx", "docx")>>,
      <<AnexoExtraido("antigo.doc", "doc")>>,
      <<AnexoExtraido("foto.jpg", "outro")>>,
      <<AnexoExtraido("tres.txt", "txt"), AnexoExtraido("foto.jpg", "outro")>>,
      <<AnexoExtraido("quase.txt", "txt"), AnexoExtraido("foto.jpg", "outro")>>,
      <<AnexoExtraido("tres.txt", "txt"), AnexoExtraido("quase.txt", "txt")>>,
      <<AnexoExtraido("corrompido.pdf", "pdf"), AnexoExtraido("foto.jpg", "outro")>>,
      <<AnexoExtraido("sem_acento.txt", "txt"), AnexoExtraido("acentuado.txt", "txt")>>,
      <<AnexoExtraido("tres.txt", "txt"), AnexoExtraido("tres.docx", "docx"),
        AnexoExtraido("quase.txt", "txt")>>,
      <<AnexoExtraido("tres.txt", "txt"), AnexoExtraido("foto.jpg", "outro"),
        AnexoExtraido("corrompido.pdf", "pdf")>>,
      <<AnexoExtraido("um_quatro.txt", "txt"), AnexoExtraido("dois_oito.txt", "txt"),
        AnexoExtraido("zero_tres.txt", "txt")>>,
      <<AnexoExtraido("zero_tres.txt", "txt"), AnexoExtraido("um_quatro.txt", "txt"),
        AnexoExtraido("dois_oito.txt", "txt")>>,
      <<AnexoExtraido("tres.txt", "txt"), AnexoExtraido("quase.txt", "txt"),
        AnexoExtraido("foto.jpg", "outro"), AnexoExtraido("formacao.txt", "txt")>> }

Emails ==
    {Email("ana@x.com", anexos) : anexos \in {l \in ListasDeAnexos : Len(l) <= MaxAnexos}}
    \cup {[Email("bia@x.com", <<>>) EXCEPT !.anexos_none = TRUE]}

\* palavras_chave_vaga: None, or a list
NaoFornecida == [fornecida |-> FALSE, lista |-> <<>>]

Fornecida(lista) == [fornecida |-> TRUE, lista |-> lista]

PalavrasChaveVaga ==
    {NaoFornecida, Fornecida(<<>>), Fornecida(palavras_chave_iniciais),
     Fornecida(ListaSiglas), Fornecida(ListaSeguranca)}

\* the lists definir_palavras_chave_customizadas is called with
ListasCustomizadas == {ListaSiglas, ListaEspacos}

\* a call of analisar_curriculo with the temporary files of its attachments
Entradas ==
    {[email_data |-> e, palavras_chave_vaga |-> p] :
        e \in Emails, p \in PalavrasChaveVaga}

\* no call of analisar_curriculo has returned yet
SemResultado == [status |-> "nenhum"]

----------------------------------------------------------------------------
(* CurriculumAnalyzer: _calcular_score_categoria called on its own *)

\* "Tecnologia da Informação"
TextoExpansaoTI ==
    <<"T", "e", "c", "n", "o", "l", "o", "g", "i", "a", " ", "d", "a", " ", "I", "n", "f", "o", "r", "m", "a", "c,", "a~", "o">>

\* "suporte de ti"
TextoComTI ==
    <<"s", "u", "p", "o", "r", "t", "e", " ", "d", "e", " ", "t", "i">>

\* "recursos humanos"
TextoExpansaoRH ==
    <<"r", "e", "c", "u", "r", "s", "o", "s", " ", "h", "u", "m", "a", "n", "o", "s">>

\* "analista de rh"
TextoComRH ==
    <<"a", "n", "a", "l", "i", "s", "t", "a", " ", "d", "e", " ", "r", "h">>

\* "utilização"
TextoUtilizacao ==
    <<"u", "t", "i", "l", "i", "z", "a", "c,", "a~", "o">>

\* "informática"
TextoInformatica ==
    <<"i", "n", "f", "o", "r", "m", "a'", "t", "i", "c", "a">>

\* "gestão de pessoas e cursos"
TextoPessoas ==
    <<"g", "e", "s", "t", "a~", "o", " ", "d", "e", " ", "p", "e", "s", "s", "o", "a", "s", " ", "e", " ", "c", "u", "r", "s", "o", "s">>

\* ""
TextoVazio ==
    <<>>

\* "curso"
TextoCurso ==
    <<"c", "u", "r", "s", "o">>

\* "ti e rh"
TextoTIeRH ==
    <<"t", "i", " ", "e", " ", "r", "h">>

TextosDaCategoria ==
    {TextoExpansaoTI,
     TextoComTI,
     TextoExpansaoRH,
     TextoComRH,
     TextoUtilizacao,
     TextoInformatica,
     TextoPessoas,
     TextoVazio,
     TextoCurso,
     TextoTIeRH}

\* "ti"
SoTI ==
    <<<<"t", "i">>>>

\* "tecnologia da informação"
SoExpansaoTI ==
    <<<<"t", "e", "c", "n", "o", "l", "o", "g", "i", "a", " ", "d", "a", " ", "i", "n", "f", "o", "r", "m", "a", "c,", "a~", "o">>>>

\* "rh"
SoRH ==
    <<<<"r", "h">>>>

\* "recursos humanos"
SoExpansaoRH ==
    <<<<"r", "e", "c", "u", "r", "s", "o", "s", " ", "h", "u", "m", "a", "n", "o", "s">>>>

\* "ti", "rh"
TIeRH ==
    <<<<"t", "i">>, <<"r", "h">>>>

\* "ti", "ti"
TIDuasVezes ==
    <<<<"t", "i">>, <<"t", "i">>>>

\* "informática", "curso"
InformaticaECurso ==
    <<<<"i", "n", "f", "o", "r", "m", "a'", "t", "i", "c", "a">>, <<"c", "u", "r", "s", "o">>>>

\* "TI"
SiglaMaiuscula ==
    <<<<"T", "I">>>>

\* "gestão de pessoas", "ti", "curso"
PessoasTICurso ==
    <<<<"g", "e", "s", "t", "a~", "o", " ", "d", "e", " ", "p", "e", "s", "s", "o", "a", "s">>, <<"t", "i">>, <<"c", "u", "r", "s", "o">>>>

\* the keyword lists of the calls: abbreviations, full terms, a list with a
\* repeated keyword and the empty list
ListasDaCategoria ==
    {<<>>, SoTI,
     SoExpansaoTI,
     SoRH,
     SoExpansaoRH,
     TIeRH,
     TIDuasVezes,
     InformaticaECurso,
     SiglaMaiuscula,
     PessoasTICurso}

\* no call of _calcular_score_categoria is under way
SemChamada == [texto |-> <<>>, keywords |-> <<>>]

CategoriaInicial == chamada = SemChamada /\ categoria = SemResultado

----------------------------------------------------------------------------
(* EmailClient: the mailbox.  A message of the mailbox is known by its      *)
(* kind; a kind says how the provider answers the two FETCH commands for    *)
(* the message:                                                             *)
(*   resposta   the shape of header_data of FETCH (BODYSTRUCTURE):          *)
(*              "tupla"  [(prefix, text), ...], the text at [0][1] being    *)
(*                       the structure of the message,                      *)
(*              "bytes"  [b'N (BODYSTRUCTURE ...)'], one bytes object,      *)
(*              "curta"  a first element of length one,                     *)
(*              "None"   [None],                                            *)
(*              "erro"   the command raises;                                *)
(*   estrutura  the body structure the provider sends, in IMAP syntax;      *)
(*   completa   whether FETCH (RFC822) and the parsing succeed;             *)
(*   partes     the parts of the parsed message: media type, content        *)
(*              disposition, file name, size of the decoded payload, and    *)
(*              whether reading the payload raises.                         *)

Mensagens ==
    ("cv_pdf" :>
      [resposta |-> "tupla", completa |-> "ok", remetente |-> "ana@x.com",
       estrutura |->
         <<"(", "(", "\"", "T", "E", "X", "T", "\"", " ", "\"", "P", "L",
           "A", "I", "N", "\"", " ", "(", "\"", "C", "H", "A", "R", "S",
           "E", "T", "\"", " ", "\"", "U", "T", "F", "-", "8", "\"", ")",
           " ", "N", "I", "L", " ", "N", "I", "L", " ", "\"", "7", "B",
           "I", "T", "\"", " ", "1", "2", " ", "1", " ", "N", "I", "L",
           " ", "N", "I", "L", " ", "N", "I", "L", ")", "(", "\"", "A",
           "P", "P", "L", "I", "C", "A", "T", "I", "O", "N", "\"", " ",
           "\"", "P", "D", "F", "\"", " ", "(", "\"", "N", "A", "M", "E",
           "\"", " ", "\"", "c", "v", ".", "p", "d", "f", "\"", ")", " ",
           "N", "I", "L", " ", "N", "I", "L", " ", "\"", "B", "A", "S",
           "E", "6", "4", "\"", " ", "1", "0", "0", " ", "N", "I", "L",
           " ", "(", "\"", "A", "T", "T", "A", "C", "H", "M", "E", "N",
           "T", "\"", " ", "(", "\"", "F", "I", "L", "E", "N", "A", "M",
           "E", "\"", " ", "\"", "c", "v", ".", "p", "d", "f", "\"", ")",
           ")", " ", "N", "I", "L", ")", " ", "\"", "M", "I", "X", "E",
           "D", "\"", " ", "N", "I", "L", " ", "N", "I", "L", " ", "N",
           "I", "L", ")">>,
       partes |->
         << [tipo |-> "text/plain", disposicao |-> "", nome |-> <<>>,
            tamanho |-> 12, ilegivel |-> FALSE],
            [tipo |-> "application/pdf", disposicao |-> "attachment", nome |-> <<"c", "v", ".", "p", "d", "f">>,
            tamanho |-> 100, ilegivel |-> FALSE] >>] @@
     "cv_doc" :>
      [resposta |-> "tupla", completa |-> "ok", remetente |-> "bia@x.com",
       estrutura |->
         <<"(", "(", "\"", "T", "E", "X", "T", "\"", " ", "\"", "P", "L",
           "A", "I", "N", "\"", " ", "(", "\"", "C", "H", "A", "R", "S",
           "E", "T", "\"", " ", "\"", "U", "T", "F", "-", "8", "\"", ")",
           " ", "N", "I", "L", " ", "N", "I", "L", " ", "\"", "7", "B",
           "I", "T", "\"", " ", "1", "2", " ", "1", " ", "N", "I", "L",
           " ", "N", "I", "L", " ", "N", "I", "L", ")", "(", "\"", "A",
           "P", "P", "L", "I", "C", "A", "T", "I", "O", "N", "\"", " ",
           "\"", "M", "S", "W", "O", "R", "D", "\"", " ", "(", "\"", "N",
           "A", "M", "E", "\"", " ", "\"", "C", "V", ".", "D", "O", "C",
           "\"", ")", " ", "N", "I", "L", " ", "N", "I", "L", " ", "\"",
           "B", "A", "S", "E", "6", "4", "\"", " ", "8", "0", " ", "N",
           "I", "L", " ", "(", "\"", "A", "T", "T", "A", "C", "H", "M",
           "E", "N", "T", "\"", " ", "(", "\"", "F", "I", "L", "E", "N",
           "A", "M", "E", "\"", " ", "\"", "C", "V", ".", "D", "O", "C",
           "\"", ")", ")", " ", "N", "I", "L", ")", " ", "\"", "M", "I",
           "X", "E", "D", "\"", " ", "N", "I", "L", " ", "N", "I", "L",
           " ", "N", "I", "L", ")">>,
       partes |->
         << [tipo |-> "text/plain", disposicao |-> "", nome |-> <<>>,
            tamanho |-> 12, ilegivel |-> FALSE],
            [tipo |-> "application/msword", disposicao |-> "attachment", nome |-> <<"C", "V", ".", "D", "O", "C">>,
            tamanho |-> 80, ilegivel |-> FALSE] >>] @@
     "sem_anexo" :>
      [resposta |-> "tupla", completa |-> "ok", remetente |-> "caio@x.com",
       estrutura |->
         <<"(", "\"", "T", "E", "X", "T", "\"", " ", "\"", "P", "L", "A",
           "I", "N", "\"", " ", "(", "\"", "C", "H", "A", "R", "S", "E",
           "T", "\"", " ", "\"", "U", "T", "F", "-", "8", "\"", ")", " ",
           "N", "I", "L", " ", "N", "I", "L", " ", "\"", "7", "B", "I",
           "T", "\"", " ", "1", "2", " ", "1", " ", "N", "I", "L", " ",
           "N", "I", "L", " ", "N", "I", "L", ")">>,
       partes |->
         << [tipo |-> "text/plain", disposicao |-> "", nome |-> <<>>,
            tamanho |-> 12, ilegivel |-> FALSE] >>] @@
     "foto" :>
      [resposta |-> "tupla", completa |-> "ok", remetente |-> "davi@x.com",
       estrutura |->
         <<"(", "(", "\"", "T", "E", "X", "T", "\"", " ", "\"", "P", "L",
           "A", "I", "N", "\"", " ", "(", "\"", "C", "H", "A", "R", "S",
           "E", "T", "\"", " ", "\"", "U", "T", "F", "-", "8", "\"", ")",
           " ", "N", "I", "L", " ", "N", "I", "L", " ", "\"", "7", "B",
           "I", "T", "\"", " ", "1", "2", " ", "1", " ", "N", "I", "L",
           " ", "N", "I", "L", " ", "N", "I", "L", ")", "(", "\"", "I",
           "M", "A", "G", "E", "\"", " ", "\"", "P", "N", "G", "\"", " ",
           "(", "\"", "N", "A", "M", "E", "\"", " ", "\"", "f", "o", "t",
           "o", ".", "p", "n", "g", "\"", ")", " ", "N", "I", "L", " ",
           "N", "I", "L", " ", "\"", "B", "A", "S", "E", "6", "4", "\"",
           " ", "5", "0", " ", "N", "I", "L", " ", "(", "\"", "A", "T",
           "T", "A", "C", "H", "M", "E", "N", "T", "\"", " ", "(", "\"",
           "F", "I", "L", "E", "N", "A", "M", "E", "\"", " ", "\"", "f",
           "o", "t", "o", ".", "p", "n", "g", "\"", ")", ")", " ", "N",
           "I", "L", ")", " ", "\"", "M", "I", "X", "E", "D", "\"", " ",
           "N", "I", "L", " ", "N", "I", "L", " ", "N", "I", "L", ")">>,
       partes |->
         << [tipo |-> "text/plain", disposicao |-> "", nome |-> <<>>,
            tamanho |-> 12, ilegivel |-> FALSE],
            [tipo |-> "image/png", disposicao |-> "attachment", nome |-> <<"f", "o", "t", "o", ".", "p", "n", "g">>,
            tamanho |-> 50, ilegivel |-> FALSE] >>] @@
     "documento_png" :>
      [resposta |-> "tupla", completa |-> "ok", remetente |-> "eva@x.com",
       estrutura |->
         <<"(", "(", "\"", "T", "E", "X", "T", "\"", " ", "\"", "P", "L",
           "A", "I", "N", "\"", " ", "(", "\"", "C", "H", "A", "R", "S",
           "E", "T", "\"", " ", "\"", "U", "T", "F", "-", "8", "\"", ")",
           " ", "N", "I", "L", " ", "N", "I", "L", " ", "\"", "7", "B",
           "I", "T", "\"", " ", "1", "2", " ", "1", " ", "N", "I", "L",
           " ", "N", "I", "L", " ", "N", "I", "L", ")", "(", "\"", "I",
           "M", "A", "G", "E", "\"", " ", "\"", "P", "N", "G", "\"", " ",
           "(", "\"", "N", "A", "M", "E", "\"", " ", "\"", "d", "o", "c",
           "u", "m", "e", "n", "t", "o", ".", "p", "n", "g", "\"", ")",
           " ", "N", "I", "L", " ", "N", "I", "L", " ", "\"", "B", "A",
           "S", "E", "6", "4", "\"", " ", "5", "0", " ", "N", "I", "L",
           " ", "(", "\"", "A", "T", "T", "A", "C", "H", "M", "E", "N",
           "T", "\"", " ", "(", "\"", "F", "I", "L", "E", "N", "A", "M",
           "E", "\"", " ", "\"", "d", "o", "c", "u", "m", "e", "n", "t",
           "o", ".", "p", "n", "g", "\"", ")", ")", " ", "N", "I", "L",
           ")", " ", "\"", "M", "I", "X", "E", "D", "\"", " ", "N", "I",
           "L", " ", "N", "I", "L", " ", "N", "I", "L", ")">>,
       partes |->
         << [tipo |-> "text/plain", disposicao |-> "", nome |-> <<>>,
            tamanho |-> 12, ilegivel |-> FALSE],
            [tipo |-> "image/png", disposicao |-> "attachment", nome |-> <<"d", "o", "c", "u", "m", "e", "n", "t", "o", ".", "p", "n", "g">>,
            tamanho |-> 50, ilegivel |-> FALSE] >>] @@
     "inline_pdf" :>
      [resposta |-> "tupla", completa |-> "ok", remetente |-> "fabio@x.com",
       estrutura |->
         <<"(", "(", "\"", "T", "E", "X", "T", "\"", " ", "\"", "P", "L",
           "A", "I", "N", "\"", " ", "(", "\"", "C", "H", "A", "R", "S",
           "E", "T", "\"", " ", "\"", "U", "T", "F", "-", "8", "\"", ")",
           " ", "N", "I", "L", " ", "N", "I", "L", " ", "\"", "7", "B",
           "I", "T", "\"", " ", "1", "2", " ", "1", " ", "N", "I", "L",
           " ", "N", "I", "L", " ", "N", "I", "L", ")", "(", "\"", "A",
           "P", "P", "L", "I", "C", "A", "T", "I", "O", "N", "\"", " ",
           "\"", "P", "D", "F", "\"", " ", "(", "\"", "N", "A", "M", "E",
           "\"", " ", "\"", "a", "t", "t", "a", "c", "h", "m", "e", "n",
           "t", ".", "p", "d", "f", "\"", ")", " ", "N", "I", "L", " ",
           "N", "I", "L", " ", "\"", "B", "A", "S", "E", "6", "4", "\"",
           " ", "6", "0", " ", "N", "I", "L", " ", "(", "\"", "I", "N",
           "L", "I", "N", "E", "\"", " ", "(", "\"", "F", "I", "L", "E",
           "N", "A", "M", "E", "\"", " ", "\"", "a", "t", "t", "a", "c",
           "h", "m", "e", "n", "t", ".", "p", "d", "f", "\"", ")", ")",
           " ", "N", "I", "L", ")", " ", "\"", "M", "I", "X", "E", "D",
           "\"", " ", "N", "I", "L", " ", "N", "I", "L", " ", "N", "I",
           "L", ")">>,
       partes |->
         << [tipo |-> "text/plain", disposicao |-> "", nome |-> <<>>,
            tamanho |-> 12, ilegivel |-> FALSE],
            [tipo |-> "application/pdf", disposicao |-> "inline", nome |-> <<"a", "t", "t", "a", "c", "h", "m", "e", "n", "t", ".", "p", "d", "f">>,
            tamanho |-> 60, ilegivel |-> FALSE] >>] @@
     "cv_bytes" :>
      [resposta |-> "bytes", completa |-> "ok", remetente |-> "gil@x.com",
       estrutura |->
         <<"(", "(", "\"", "T", "E", "X", "T", "\"", " ", "\"", "P", "L",
           "A", "I", "N", "\"", " ", "(", "\"", "C", "H", "A", "R", "S",
           "E", "T", "\"", " ", "\"", "U", "T", "F", "-", "8", "\"", ")",
           " ", "N", "I", "L", " ", "N", "I", "L", " ", "\"", "7", "B",
           "I", "T", "\"", " ", "1", "2", " ", "1", " ", "N", "I", "L",
           " ", "N", "I", "L", " ", "N", "I", "L", ")", "(", "\"", "A",
           "P", "P", "L", "I", "C", "A", "T", "I", "O", "N", "\"", " ",
           "\"", "P", "D", "F", "\"", " ", "(", "\"", "N", "A", "M", "E",
           "\"", " ", "\"", "c", "v", ".", "p", "d", "f", "\"", ")", " ",
           "N", "I", "L", " ", "N", "I", "L", " ", "\"", "B", "A", "S",
           "E", "6", "4", "\"", " ", "1", "0", "0", " ", "N", "I", "L",
           " ", "(", "\"", "A", "T", "T", "A", "C", "H", "M", "E", "N",
           "T", "\"", " ", "(", "\"", "F", "I", "L", "E", "N", "A", "M",
           "E", "\"", " ", "\"", "c", "v", ".", "p", "d", "f", "\"", ")",
           ")", " ", "N", "I", "L", ")", " ", "\"", "M", "I", "X", "E",
           "D", "\"", " ", "N", "I", "L", " ", "N", "I", "L", " ", "N",
           "I", "L", ")">>,
       partes |->
         << [tipo |-> "text/plain", disposicao |-> "", nome |-> <<>>,
            tamanho |-> 12, ilegivel |-> FALSE],
            [tipo |-> "application/pdf", disposicao |-> "attachment", nome |-> <<"c", "v", ".", "p", "d", "f">>,
            tamanho |-> 100, ilegivel |-> FALSE] >>] @@
     "resposta_curta" :>
      [resposta |-> "curta", completa |-> "ok", remetente |-> "hugo@x.com",
       estrutura |->
         <<"(", "(", "\"", "T", "E", "X", "T", "\"", " ", "\"", "P", "L",
           "A", "I", "N", "\"", " ", "(", "\"", "C", "H", "A", "R", "S",
           "E", "T", "\"", " ", "\"", "U", "T", "F", "-", "8", "\"", ")",
           " ", "N", "I", "L", " ", "N", "I", "L", " ", "\"", "7", "B",
           "I", "T", "\"", " ", "1", "2", " ", "1", " ", "N", "I", "L",
           " ", "N", "I", "L", " ", "N", "I", "L", ")", "(", "\"", "A",
           "P", "P", "L", "I", "C", "A", "T", "I", "O", "N", "\"", " ",
           "\"", "P", "D", "F", "\"", " ", "(", "\"", "N", "A", "M", "E",
           "\"", " ", "\"", "c", "v", ".", "p", "d", "f", "\"", ")", " ",
           "N", "I", "L", " ", "N", "I", "L", " ", "\"", "B", "A", "S",
           "E", "6", "4", "\"", " ", "1", "0", "0", " ", "N", "I", "L",
           " ", "(", "\"", "A", "T", "T", "A", "C", "H", "M", "E", "N",
           "T", "\"", " ", "(", "\"", "F", "I", "L", "E", "N", "A", "M",
           "E", "\"", " ", "\"", "c", "v", ".", "p", "d", "f", "\"", ")",
           ")", " ", "N", "I", "L", ")", " ", "\"", "M", "I", "X", "E",
           "D", "\"", " ", "N", "I", "L", " ", "N", "I", "L", " ", "N",
           "I", "L", ")">>,
       partes |->
         << [tipo |-> "text/plain", disposicao |-> "", nome |-> <<>>,
            tamanho |-> 12, ilegivel |-> FALSE],
            [tipo |-> "application/pdf", disposicao |-> "attachment", nome |-> <<"c", "v", ".", "p", "d", "f">>,
            tamanho |-> 100, ilegivel |-> FALSE] >>] @@
     "sem_resposta" :>
      [resposta |-> "None", completa |-> "ok", remetente |-> "iara@x.com",
       estrutura |->
         <<"(", "(", "\"", "T", "E", "X", "T", "\"", " ", "\"", "P", "L",
           "A", "I", "N", "\"", " ", "(", "\"", "C", "H", "A", "R", "S",
           "E", "T", "\"", " ", "\"", "U", "T", "F", "-", "8", "\"", ")",
           " ", "N", "I", "L", " ", "N", "I", "L", " ", "\"", "7", "B",
           "I", "T", "\"", " ", "1", "2", " ", "1", " ", "N", "I", "L",
           " ", "N", "I", "L", " ", "N", "I", "L", ")", "(", "\"", "A",
           "P", "P", "L", "I", "C", "A", "T", "I", "O", "N", "\"", " ",
           "\"", "P", "D", "F", "\"", " ", "(", "\"", "N", "A", "M", "E",
           "\"", " ", "\"", "c", "v", ".", "p", "d", "f", "\"", ")", " ",
           "N", "I", "L", " ", "N", "I", "L", " ", "\"", "B", "A", "S",
           "E", "6", "4", "\"", " ", "1", "0", "0", " ", "N", "I", "L",
           " ", "(", "\"", "A", "T", "T", "A", "C", "H", "M", "E", "N",
           "T", "\"", " ", "(", "\"", "F", "I", "L", "E", "N", "A", "M",
           "E", "\"", " ", "\"", "c", "v", ".", "p", "d", "f", "\"", ")",
           ")", " ", "N", "I", "L", ")", " ", "\"", "M", "I", "X", "E",
           "D", "\"", " ", "N", "I", "L", " ", "N", "I", "L", " ", "N",
           "I", "L", ")">>,
       partes |->
         << [tipo |-> "text/plain", disposicao |-> "", nome |-> <<>>,
            tamanho |-> 12, ilegivel |-> FALSE],
            [tipo |-> "application/pdf", disposicao |-> "attachment", nome |-> <<"c", "v", ".", "p", "d", "f">>,
            tamanho |-> 100, ilegivel |-> FALSE] >>] @@
     "sonda_falha" :>
      [resposta |-> "erro", completa |-> "ok", remetente |-> "joao@x.com",
       estrutura |->
         <<"(", "(", "\"", "T", "E", "X", "T", "\"", " ", "\"", "P", "L",
           "A", "I", "N", "\"", " ", "(", "\"", "C", "H", "A", "R", "S",
           "E", "T", "\"", " ", "\"", "U", "T", "F", "-", "8", "\"", ")",
           " ", "N", "I", "L", " ", "N", "I", "L", " ", "\"", "7", "B",
           "I", "T", "\"", " ", "1", "2", " ", "1", " ", "N", "I", "L",
           " ", "N", "I", "L", " ", "N", "I", "L", ")", "(", "\"", "A",
           "P", "P", "L", "I", "C", "A", "T", "I", "O", "N", "\"", " ",
           "\"", "P", "D", "F", "\"", " ", "(", "\"", "N", "A", "M", "E",
           "\"", " ", "\"", "c", "v", ".", "p", "d", "f", "\"", ")", " ",
           "N", "I", "L", " ", "N", "I", "L", " ", "\"", "B", "A", "S",
           "E", "6", "4", "\"", " ", "1", "0", "0", " ", "N", "I", "L",
           " ", "(", "\"", "A", "T", "T", "A", "C", "H", "M", "E", "N",
           "T", "\"", " ", "(", "\"", "F", "I", "L", "E", "N", "A", "M",
           "E", "\"", " ", "\"", "c", "v", ".", "p", "d", "f", "\"", ")",
           ")", " ", "N", "I", "L", ")", " ", "\"", "M", "I", "X", "E",
           "D", "\"", " ", "N", "I", "L", " ", "N", "I", "L", " ", "N",
           "I", "L", ")">>,
       partes |->
         << [tipo |-> "text/plain", disposicao |-> "", nome |-> <<>>,
            tamanho |-> 12, ilegivel |-> FALSE],
            [tipo |-> "application/pdf", disposicao |-> "attachment", nome |-> <<"c", "v", ".", "p", "d", "f">>,
            tamanho |-> 100, ilegivel |-> FALSE] >>] @@
     "download_falha" :>
      [resposta |-> "tupla", completa |-> "erro", remetente |-> "lia@x.com",
       estrutura |->
         <<"(", "(", "\"", "T", "E", "X", "T", "\"", " ", "\"", "P", "L",
           "A", "I", "N", "\"", " ", "(", "\"", "C", "H", "A", "R", "S",
           "E", "T", "\"", " ", "\"", "U", "T", "F", "-", "8", "\"", ")",
           " ", "N", "I", "L", " ", "N", "I", "L", " ", "\"", "7", "B",
           "I", "T", "\"", " ", "1", "2", " ", "1", " ", "N", "I", "L",
           " ", "N", "I", "L", " ", "N", "I", "L", ")", "(", "\"", "A",
           "P", "P", "L", "I", "C", "A", "T", "I", "O", "N", "\"", " ",
           "\"", "P", "D", "F", "\"", " ", "(", "\"", "N", "A", "M", "E",
           "\"", " ", "\"", "c", "v", ".", "p", "d", "f", "\"", ")", " ",
           "N", "I", "L", " ", "N", "I", "L", " ", "\"", "B", "A", "S",
           "E", "6", "4", "\"", " ", "1", "0", "0", " ", "N", "I", "L",
           " ", "(", "\"", "A", "T", "T", "A", "C", "H", "M", "E", "N",
           "T", "\"", " ", "(", "\"", "F", "I", "L", "E", "N", "A", "M",
           "E", "\"", " ", "\"", "c", "v", ".", "p", "d", "f", "\"", ")",
           ")", " ", "N", "I", "L", ")", " ", "\"", "M", "I", "X", "E",
           "D", "\"", " ", "N", "I", "L", " ", "N", "I", "L", " ", "N",
           "I", "L", ")">>,
       partes |->
         << [tipo |-> "text/plain", disposicao |-> "", nome |-> <<>>,
            tamanho |-> 12, ilegivel |-> FALSE],
            [tipo |-> "application/pdf", disposicao |-> "attachment", nome |-> <<"c", "v", ".", "p", "d", "f">>,
            tamanho |-> 100, ilegivel |-> FALSE] >>] @@
     "pdf_vazio" :>
      [resposta |-> "tupla", completa |-> "ok", remetente |-> "mara@x.com",
       estrutura |->
         <<"(", "(", "\"", "T", "E", "X", "T", "\"", " ", "\"", "P", "L",
           "A", "I", "N", "\"", " ", "(", "\"", "C", "H", "A", "R", "S",
           "E", "T", "\"", " ", "\"", "U", "T", "F", "-", "8", "\"", ")",
           " ", "N", "I", "L", " ", "N", "I", "L", " ", "\"", "7", "B",
           "I", "T", "\"", " ", "1", "2", " ", "1", " ", "N", "I", "L",
           " ", "N", "I", "L", " ", "N", "I", "L", ")", "(", "\"", "A",
           "P", "P", "L", "I", "C", "A", "T", "I", "O", "N", "\"", " ",
           "\"", "P", "D", "F", "\"", " ", "(", "\"", "N", "A", "M", "E",
           "\"", " ", "\"", "v", "a", "z", "i", "o", ".", "p", "d", "f",
           "\"", ")", " ", "N", "I", "L", " ", "N", "I", "L", " ", "\"",
           "B", "A", "S", "E", "6", "4", "\"", " ", "0", " ", "N", "I",
           "L", " ", "(", "\"", "A", "T", "T", "A", "C", "H", "M", "E",
           "N", "T", "\"", " ", "(", "\"", "F", "I", "L", "E", "N", "A",
           "M", "E", "\"", " ", "\"", "v", "a", "z", "i", "o", ".", "p",
           "d", "f", "\"", ")", ")", " ", "N", "I", "L", ")", " ", "\"",
           "M", "I", "X", "E", "D", "\"", " ", "N", "I", "L", " ", "N",
           "I", "L", " ", "N", "I", "L", ")">>,
       partes |->
         << [tipo |-> "text/plain", disposicao |-> "", nome |-> <<>>,
            tamanho |-> 12, ilegivel |-> FALSE],
            [tipo |-> "application/pdf", disposicao |-> "attachment", nome |-> <<"v", "a", "z", "i", "o", ".", "p", "d", "f">>,
            tamanho |-> 0, ilegivel |-> FALSE] >>] @@
     "extracao_falha" :>
      [resposta |-> "tupla", completa |-> "ok", remetente |-> "nei@x.com",
       estrutura |->
         <<"(", "(", "\"", "T", "E", "X", "T", "\"", " ", "\"", "P", "L",
           "A", "I", "N", "\"", " ", "(", "\"", "C", "H", "A", "R", "S",
           "E", "T", "\"", " ", "\"", "U", "T", "F", "-", "8", "\"", ")",
           " ", "N", "I", "L", " ", "N", "I", "L", " ", "\"", "7", "B",
           "I", "T", "\"", " ", "1", "2", " ", "1", " ", "N", "I", "L",
           " ", "N", "I", "L", " ", "N", "I", "L", ")", "(", "\"", "A",
           "P", "P", "L", "I", "C", "A", "T", "I", "O", "N", "\"", " ",
           "\"", "P", "D", "F", "\"", " ", "(", "\"", "N", "A", "M", "E",
           "\"", " ", "\"", "a", ".", "p", "d", "f", "\"", ")", " ", "N",
           "I", "L", " ", "N", "I", "L", " ", "\"", "B", "A", "S", "E",
           "6", "4", "\"", " ", "1", "0", "0", " ", "N", "I", "L", " ",
           "(", "\"", "A", "T", "T", "A", "C", "H", "M", "E", "N", "T",
           "\"", " ", "(", "\"", "F", "I", "L", "E", "N", "A", "M", "E",
           "\"", " ", "\"", "a", ".", "p", "d", "f", "\"", ")", ")", " ",
           "N", "I", "L", ")", "(", "\"", "A", "P", "P", "L", "I", "C",
           "A", "T", "I", "O", "N", "\"", " ", "\"", "P", "D", "F", "\"",
           " ", "(", "\"", "N", "A", "M", "E", "\"", " ", "\"", "b", ".",
           "p", "d", "f", "\"", ")", " ", "N", "I", "L", " ", "N", "I",
           "L", " ", "\"", "B", "A", "S", "E", "6", "4", "\"", " ", "1",
           "0", "0", " ", "N", "I", "L", " ", "(", "\"", "A", "T", "T",
           "A", "C", "H", "M", "E", "N", "T", "\"", " ", "(", "\"", "F",
           "I", "L", "E", "N", "A", "M", "E", "\"", " ", "\"", "b", ".",
           "p", "d", "f", "\"", ")", ")", " ", "N", "I", "L", ")", " ",
           "\"", "M", "I", "X", "E", "D", "\"", " ", "N", "I", "L", " ",
           "N", "I", "L", " ", "N", "I", "L", ")">>,
       partes |->
         << [tipo |-> "text/plain", disposicao |-> "", nome |-> <<>>,
            tamanho |-> 12, ilegivel |-> FALSE],
            [tipo |-> "application/pdf", disposicao |-> "attachment", nome |-> <<"a", ".", "p", "d", "f">>,
            tamanho |-> 100, ilegivel |-> FALSE],
            [tipo |-> "application/pdf", disposicao |-> "attachment", nome |-> <<"b", ".", "p", "d", "f">>,
            tamanho |-> 100, ilegivel |-> TRUE] >>])

Tipos == DOMAIN Mensagens

\* the 1000 of lines 124 and 126
LimiteTodos == 1000

MaxMensagens == 3   \* most messages of a small mailbox

\* the small mailboxes, oldest message first
Caixas ==
    { c \in { <<>>,
              <<"cv_pdf">>,
              <<"sem_anexo">>,
              <<"cv_pdf", "cv_doc">>,
              <<"cv_pdf", "cv_pdf">>,
              <<"cv_doc", "foto">>,
              <<"sem_anexo", "documento_png">>,
              <<"inline_pdf", "cv_pdf">>,
              <<"cv_pdf", "sonda_falha", "cv_doc">>,
              <<"cv_doc", "download_falha", "cv_pdf">>,
              <<"extracao_falha", "sem_resposta", "cv_pdf">>,
              <<"cv_bytes", "resposta_curta", "pdf_vazio">>,
              <<"cv_pdf", "foto", "cv_doc", "sem_anexo">>,
              <<"cv_doc", "sonda_falha", "download_falha", "cv_pdf">> } :
        Len(c) <= MaxMensagens }

\* a mailbox of one message more than the limit, with a curriculum in the
\* oldest and in the newest message
CaixaGrande ==
    [i \in 1..(LimiteTodos + 1) |->
        IF i \in {1, LimiteTodos + 1} THEN "cv_pdf" ELSE "sem_anexo"]

\* A provider: whether the client holds a session with it (self.imap_server
\* is set) and the session is alive (NOOP succeeds); how it takes a SEARCH
\* with HAS ATTACHMENT ("aceita", "vazia": answers with no number,
\* "rejeita": the command raises), with SINCE and with ALL; the number of
\* the oldest message within the last dias_atras days; the mailbox.
Provedor(conectado, ativa, anexos, data, todas, desde, caixa) ==
    [conectado |-> conectado, ativa |-> ativa, anexos |-> anexos, data |-> data,
     todas |-> todas, desde |-> desde, caixa |-> caixa]

SemServidor == Provedor(FALSE, FALSE, "rejeita", "rejeita", "rejeita", 1, <<>>)

Servidores ==
    {SemServidor,
     Provedor(TRUE, FALSE, "aceita", "aceita", "aceita", 1, <<"cv_pdf">>)}
    \cup { Provedor(TRUE, TRUE, anexos, data, todas, desde, caixa) :
             anexos \in {"aceita", "vazia", "rejeita"},
             data \in {"aceita", "rejeita"},
             todas \in {"aceita", "rejeita"},
             desde \in {1, 2},
             caixa \in Caixas }
    \cup { Provedor(TRUE, TRUE, "rejeita", data, "aceita", LimiteTodos, CaixaGrande) :
             data \in {"aceita", "rejeita"} }

----------------------------------------------------------------------------
(* EmailClient.buscar_emails_com_anexos: the searches *)

TemAnexo(tipo) ==
    \E i \in 1..Len(Mensagens[tipo].partes) :
        Mensagens[tipo].partes[i].disposicao = "attachment"

\* the numbers from..Len(caixa) of the messages with an attachment
NumerosComAnexo(caixa, from) ==
    LET ComAnexo(num) == TemAnexo(caixa[num])
    IN  SelectSeq([i \in 1..(Len(caixa) - from + 1) |-> from + i - 1], ComAnexo)

\* the numbers from..Len(caixa)
NumerosDesde(caixa, from) == [i \in 1..(Len(caixa) - from + 1) |-> from + i - 1]

PedeAnexo(criterio) == criterio \in {"HAS ATTACHMENT", "SINCE HAS ATTACHMENT"}

PedeData(criterio) == criterio \in {"SINCE", "SINCE HAS ATTACHMENT"}

\* imap_server.search(None, criterio) raises
Rejeita(srv, criterio) ==
    \/ PedeAnexo(criterio) /\ srv.anexos = "rejeita"
    \/ PedeData(criterio) /\ srv.data = "rejeita"
    \/ criterio = "ALL" /\ srv.todas = "rejeita"

\* message_numbers[0].split() of imap_server.search(None, criterio)
Pesquisar(srv, criterio) ==
    IF PedeAnexo(criterio)
    THEN IF srv.anexos = "vazia" THEN <<>>
         ELSE NumerosComAnexo(srv.caixa, IF PedeData(criterio) THEN srv.desde ELSE 1)
    ELSE NumerosDesde(srv.caixa, IF PedeData(criterio) THEN srv.desde ELSE 1)

\* the outcome of the searches: the criteria tried, the numbers of the last
\* one, and whether the last one raised out of the search code
Busca(feitas, numeros, falhou) ==
    [buscas |-> feitas, message_numbers |-> numeros, falhou |-> falhou]

\* a search outside any inner try, after the searches feitas
Tentar(srv, feitas, criterio) ==
    IF Rejeita(srv, criterio)
    THEN Busca(Append(feitas, criterio), <<>>, TRUE)
    ELSE Busca(Append(feitas, criterio), Pesquisar(srv, criterio), FALSE)

\* lines 76-93: todos_emails
BuscarTodos(srv) ==
    IF Rejeita(srv, "HAS ATTACHMENT")
    THEN Tentar(srv, <<"HAS ATTACHMENT">>, "ALL")
    ELSE IF Pesquisar(srv, "HAS ATTACHMENT") # <<>>
    THEN Busca(<<"HAS ATTACHMENT">>, Pesquisar(srv, "HAS ATTACHMENT"), FALSE)
    ELSE IF Rejeita(srv, "ALL")
    THEN Tentar(srv, <<"HAS ATTACHMENT", "ALL">>, "ALL")
    ELSE Busca(<<"HAS ATTACHMENT", "ALL">>, Pesquisar(srv, "ALL"), FALSE)

\* lines 94-112 without the fallback searches
BuscarRecentes_SemAlternativa(srv) == Tentar(srv, <<>>, "SINCE HAS ATTACHMENT")

\* lines 94-112: the last dias_atras days
BuscarRecentes(srv) ==
    IF Rejeita(srv, "SINCE HAS ATTACHMENT")
    THEN Tentar(srv, <<"SINCE HAS ATTACHMENT">>, "ALL")
    ELSE IF Pesquisar(srv, "SINCE HAS ATTACHMENT") # <<>>
    THEN Busca(<<"SINCE HAS ATTACHMENT">>, Pesquisar(srv, "SINCE HAS ATTACHMENT"), FALSE)
    ELSE IF Rejeita(srv, "SINCE")
    THEN Tentar(srv, <<"SINCE HAS ATTACHMENT", "SINCE">>, "ALL")
    ELSE Busca(<<"SINCE HAS ATTACHMENT", "SINCE">>, Pesquisar(srv, "SINCE"), FALSE)

\* lines 124-127: message_list[-1000:] when todos_emails
Limitar(todos, numeros) ==
    IF todos /\ Len(numeros) > LimiteTodos
    THEN SubSeq(numeros, Len(numeros) - LimiteTodos + 1, Len(numeros))
    ELSE numeros

\* the list as it is
Inverter_Nada(lista) == lista

\* list(reversed(message_list))
Inverter(lista) == [i \in 1..Len(lista) |-> lista[Len(lista) + 1 - i]]

----------------------------------------------------------------------------
(* EmailClient.buscar_emails_com_anexos: one message *)

\* str(n) of a byte value
Digitos(n) ==
    LET d == <<"0", "1", "2", "3", "4", "5", "6", "7", "8", "9">>
    IN  IF n < 10 THEN <<d[n + 1]>>
        ELSE IF n < 100 THEN <<d[(n \div 10) + 1], d[(n % 10) + 1]>>
        ELSE <<d[(n \div 100) + 1], d[((n \div 10) % 10) + 1], d[(n % 10) + 1]>>

\* the second byte of b'<num> (BODYSTRUCTURE ...': a space after a number of
\* one digit, else the second digit of the number
SegundoByte(num) ==
    IF num < 10 THEN 32
    ELSE IF num < 100 THEN 48 + (num % 10)
    ELSE IF num < 1000 THEN 48 + ((num \div 10) % 10)
    ELSE 48 + ((num \div 100) % 10)

\* str(header_data[0][1]).lower(), header_data[0] having more than one element
EstruturaLida(m, num) ==
    IF m.resposta = "tupla" THEN lower(m.estrutura) ELSE Digitos(SegundoByte(num))

\* lines 162-169: tem_anexos_provavel
PreFiltro(bodystructure) ==
    /\ Contem(bodystructure, <<"a", "t", "t", "a", "c", "h", "m", "e", "n", "t">>)
    /\ \/ Contem(bodystructure, <<"p", "d", "f">>)
       \/ Contem(bodystructure, <<"m", "s", "w", "o", "r", "d">>)
       \/ Contem(bodystructure, <<"d", "o", "c", "u", "m", "e", "n", "t">>)
       \/ Contem(bodystructure, <<"t", "e", "x", "t", "/", "p", "l", "a", "i", "n">>)

\* nome.endswith(sufixo)
TerminaCom(nome, sufixo) ==
    /\ Len(nome) >= Len(sufixo)
    /\ SubSeq(nome, Len(nome) - Len(sufixo) + 1, Len(nome)) = sufixo

extensoes_aceitas ==
    << <<".", "p", "d", "f">>, <<".", "d", "o", "c">>,
       <<".", "d", "o", "c", "x">>, <<".", "t", "x", "t">> >>

\* any(nome_lower.endswith(ext) for ext in extensoes_aceitas)
ExtensaoAceita(filename) ==
    \E i \in 1..Len(extensoes_aceitas) : TerminaCom(lower(filename), extensoes_aceitas[i])

\* lines 188-190 and 263-266: an attachment part with a file name (the file
\* names of the model are plain text, which decode_header leaves as it is)
AnexoComNome(part) == part.disposicao = "attachment" /\ part.nome # <<>>

\* lines 186-206: tem_anexos
tem_anexos(partes) ==
    \E i \in 1..Len(partes) : AnexoComNome(partes[i]) /\ ExtensaoAceita(partes[i].nome)

\* _detectar_tipo_arquivo(filename)
detectar_tipo_arquivo(filename) ==
    IF TerminaCom(lower(filename), <<".", "p", "d", "f">>) THEN "pdf"
    ELSE IF TerminaCom(lower(filename), <<".", "d", "o", "c">>) THEN "doc"
    ELSE IF TerminaCom(lower(filename), <<".", "d", "o", "c", "x">>) THEN "docx"
    ELSE IF TerminaCom(lower(filename), <<".", "t", "x", "t">>) THEN "txt"
    ELSE "desconhecido"

\* c.isalnum() or c in (' ', '-', '_', '.')
CaractereSeguro(c) ==
    c \in {"a", "b", "c", "d", "e", "f", "g", "h", "i", "j", "k", "l", "m",
           "n", "o", "p", "q", "r", "s", "t", "u", "v", "w", "x", "y", "z",
           "A", "B", "C", "D", "E", "F", "G", "H", "I", "J", "K", "L", "M",
           "N", "O", "P", "Q", "R", "S", "T", "U", "V", "W", "X", "Y", "Z",
           "0", "1", "2", "3", "4", "5", "6", "7", "8", "9",
           " ", "-", "_", "."}

\* line 294: "".join(c for c in filename if c.isalnum() or c in ...)
nome_seguro(filename) == SelectSeq(filename, CaractereSeguro)

\* lines 293-297: os.path.join(temp_dir, f"curriculo_{timestamp}_{nome_seguro}");
\* the timestamp has the second t in a fixed width, so that two paths are
\* equal exactly when the second and the safe name are
caminho_temp(t, filename) == [timestamp |-> t, nome |-> nome_seguro(filename)]

\* lines 302-308: the entry of an attachment written in the second t
DadosDoAnexo(part, t) ==
    [nome_original |-> part.nome, caminho_temp |-> caminho_temp(t, part.nome),
     tamanho |-> part.tamanho, tipo |-> detectar_tipo_arquivo(part.nome)]

\* the part is one whose payload the walk of _extrair_anexos reads
LePayload(part) == AnexoComNome(part) /\ ExtensaoAceita(part.nome)

RECURSIVE ExtrairDe(_, _, _)
\* lines 261-313: the walk over the parts from part i on; reading a payload
\* that raises ends the walk with the attachments gathered so far
ExtrairDe(partes, i, t) ==
    IF i > Len(partes) THEN <<>>
    ELSE IF ~LePayload(partes[i]) THEN ExtrairDe(partes, i + 1, t)
    ELSE IF partes[i].ilegivel THEN <<>>
    ELSE IF partes[i].tamanho = 0 THEN ExtrairDe(partes, i + 1, t)
    ELSE <<DadosDoAnexo(partes[i], t)>> \o ExtrairDe(partes, i + 1, t)

\* _extrair_anexos(email_message)
extrair_anexos(partes, t) == ExtrairDe(partes, 1, t)

Sonda(num) == [comando |-> "BODYSTRUCTURE", num |-> num]

Download(num) == [comando |-> "RFC822", num |-> num]

\* lines 217-223: email_data (the kinds of the model differ in the sender)
EmailData(num, m, t) ==
    [numero |-> num, remetente |-> m.remetente, anexos |-> extrair_anexos(m.partes, t)]

\* the outcome of one pass of the loop: the FETCH commands issued, whether
\* the except of line 226 was entered, and the entries appended to
\* emails_processados
Passo(cmds, levantou, coletados) ==
    [comandos |-> cmds, erro |-> levantou, coletados |-> coletados]

\* lines 177-224: the message passed the pre-filter
BaixarEmail(m, num, t) ==
    IF m.completa # "ok"
    THEN Passo(<<Sonda(num), Download(num)>>, TRUE, <<>>)
    ELSE IF tem_anexos(m.partes) /\ extrair_anexos(m.partes, t) # <<>>
    THEN Passo(<<Sonda(num), Download(num)>>, FALSE, <<EmailData(num, m, t)>>)
    ELSE Passo(<<Sonda(num), Download(num)>>, FALSE, <<>>)

\* lines 149-228: one pass of the loop, for message num of kind m
ProcessarMensagem(m, num, t) ==
    IF m.resposta \in {"erro", "None"}
    THEN Passo(<<Sonda(num)>>, TRUE, <<>>)
    ELSE IF m.resposta = "curta"
    THEN Passo(<<Sonda(num)>>, FALSE, <<>>)
    ELSE IF ~PreFiltro(EstruturaLida(m, num))
    THEN Passo(<<Sonda(num)>>, FALSE, <<>>)
    ELSE BaixarEmail(m, num, t)

MaxSegundos == 1   \* the seconds a run may take

\* datetime.now() of a pass: the second of the pass before, or the next one
Agora(t) == {s \in {t, t + 1} : s <= MaxSegundos}

\* the flags of the mailbox after a pass: the mailbox is selected read-write
\* (select('INBOX'), line 36), in which FETCH RFC822 sets \Seen on the
\* message it answers with, and FETCH BODYSTRUCTURE sets no flag
Marcar(flags, p) ==
    IF ~p.erro /\ Len(p.comandos) = 2 THEN flags \cup {p.comandos[2].num} ELSE flags

RECURSIVE GravarAnexos(_, _, _)
\* lines 299-300: open(caminho_temp, 'wb').write(payload), for the attachments
\* of message num from the i-th on; a file of the same path is overwritten
GravarAnexos(arquivos, e, i) ==
    IF i > Len(e.anexos) THEN arquivos
    ELSE GravarAnexos({f \in arquivos : f.caminho # e.anexos[i].caminho_temp}
                          \cup {[caminho |-> e.anexos[i].caminho_temp,
                                 numero |-> e.numero,
                                 nome |-> e.anexos[i].nome_original]},
                      e, i + 1)

\* the temporary directory after a pass
Gravar(arquivos, p) ==
    IF p.coletados = <<>> THEN arquivos ELSE GravarAnexos(arquivos, p.coletados[1], 1)

\* buscar_emails_com_anexos has not returned
SemRetorno == [tipo |-> "nenhum", valor |-> <<>>]

\* return valor
Retorna(valor) == [tipo |-> "lista", valor |-> valor]

\* raise Exception (line 67)
Levanta == [tipo |-> "Exception", valor |-> <<>>]

\* the run before buscar_emails_com_anexos is called
\* no call of conectar or desconectar yet
SemConexao == [op |-> "nenhuma", ret |-> "None"]

SemParada == 0 - 1

\* app.py lines 121-122 and EmailClient.__init__
ClienteInicial ==
    /\ conexao = SemConexao
    /\ triagem_running = FALSE
    /\ parada = SemParada

\* every message of the mailbox is unread, and the temporary directory is
\* empty
CaixaInicial ==
    /\ lidas = {}
    /\ relogio = 0
    /\ temporarios = {}

EmailInicial ==
    /\ servidor = SemServidor
    /\ todos_emails = TRUE
    /\ etapa = "inicio"
    /\ buscas = <<>>
    /\ message_numbers = <<>>
    /\ message_list = <<>>
    /\ posicao = 0
    /\ comandos = <<>>
    /\ erro = FALSE
    /\ sondagens = 0
    /\ emails_processados = <<>>
    /\ retorno = SemRetorno
    /\ ClienteInicial
    /\ CaixaInicial

----------------------------------------------------------------------------
(* The database: four tables and sqlite_sequence *)

Tabelas == {"vagas", "resultados", "anexos", "aprovados_por_vaga"}

\* criar_tabelas on a fresh file
criar_tabelas ==
    [vagas |-> {}, resultados |-> {}, anexos |-> {}, aprovados_por_vaga |-> {},
     seq |-> [t \in Tabelas |-> 0]]

Maximo(S) == IF S = {} THEN 0 ELSE CHOOSE m \in S : \A x \in S : x <= m

Minimo(S) == CHOOSE m \in S : \A x \in S : m <= x

\* INTEGER PRIMARY KEY AUTOINCREMENT: one more than the largest id ever
\* recorded in sqlite_sequence or present in the table
ProximoId(d, t) == Maximo({d.seq[t]} \cup {l.id : l \in d[t]}) + 1

ChaveDe(r) == <<r.email_remetente, r.assunto, r.data_email>>

LinhasDaChave(d, chave) ==
    {l \in d.resultados : <<l.email_remetente, l.assunto, l.data_email>> = chave}

----------------------------------------------------------------------------
(* salvar_vaga and obter_vagas_ativas: the SQL statements *)

\* an UPDATE whose WHERE clause matches no row
DesativarVagas_SemEfeito(d, nome_vaga) == d

\* UPDATE vagas SET ativa = FALSE WHERE nome_vaga = ? AND ativa = TRUE
DesativarVagas(d, nome_vaga) ==
    [d EXCEPT !.vagas =
        {IF v.nome_vaga = nome_vaga /\ v.ativa THEN [v EXCEPT !.ativa = FALSE] ELSE v :
            v \in d.vagas}]

\* INSERT INTO vagas (nome_vaga, palavras_chave); ativa defaults to TRUE
InserirVaga(d, nome_vaga, palavras_chave, t) ==
    LET id == ProximoId(d, "vagas") IN
    [d EXCEPT !.vagas = @ \cup {[id |-> id, nome_vaga |-> nome_vaga,
                                 palavras_chave |-> palavras_chave,
                                 data_criacao |-> t, ativa |-> TRUE]},
              !.seq["vagas"] = id]

RECURSIVE OrdenarVagas(_)
\* ORDER BY data_criacao DESC (rows of one instant in rowid order)
OrdenarVagas(S) ==
    IF S = {} THEN <<>>
    ELSE LET v == CHOOSE x \in S : \A y \in S :
                      \/ x.data_criacao > y.data_criacao
                      \/ x.data_criacao = y.data_criacao /\ x.id <= y.id
         IN <<v>> \o OrdenarVagas(S \ {v})

\* SELECT id, nome_vaga, palavras_chave, data_criacao FROM vagas WHERE ativa = TRUE
SelecionarVagasAtivas(d) ==
    LET ordem == OrdenarVagas({v \in d.vagas : v.ativa}) IN
    [i \in 1..Len(ordem) |->
        [id |-> ordem[i].id, nome |-> ordem[i].nome_vaga,
         palavras_chave |-> ordem[i].palavras_chave,
         data_criacao |-> ordem[i].data_criacao]]

----------------------------------------------------------------------------
(* salvar_resultado: the SQL statements *)

\* a lookup by sender and file name instead of the identity key
SelecionarResultado_PorArquivo(d, r) ==
    LET S == {l \in d.resultados : /\ l.email_remetente = r.email_remetente
                                   /\ l.nome_arquivo = r.nome_arquivo}
    IN IF S = {} THEN Nenhum ELSE Minimo({l.id : l \in S})

\* SELECT id FROM resultados WHERE email_remetente = ? AND assunto = ?
\* AND data_email = ?, then fetchone(): the first row in rowid order
SelecionarResultado(d, r) ==
    IF LinhasDaChave(d, ChaveDe(r)) = {} THEN Nenhum
    ELSE Minimo({l.id : l \in LinhasDaChave(d, ChaveDe(r))})

\* INSERT INTO resultados, then one INSERT INTO anexos per analysed attachment
InserirResultado(d, r, t) ==
    LET rid == ProximoId(d, "resultados")
        aid == ProximoId(d, "anexos")
        n == Len(r.anexos_analisados)
        linha == [id |-> rid, data_analise |-> t,
                  email_remetente |-> r.email_remetente, assunto |-> r.assunto,
                  data_email |-> r.data_email, nome_arquivo |-> r.nome_arquivo,
                  pontuacao |-> r.pontuacao, status |-> r.status,
                  detalhes_json |-> r.anexos_analisados, vaga_id |-> r.vaga_id]
        novos == {[id |-> aid + i - 1, resultado_id |-> rid,
                   nome_arquivo |-> r.anexos_analisados[i].nome_arquivo,
                   tipo_arquivo |-> r.anexos_analisados[i].tipo_arquivo,
                   tamanho_texto |-> r.anexos_analisados[i].tamanho_texto,
                   pontuacao |-> r.anexos_analisados[i].pontuacao,
                   palavras_encontradas |-> r.anexos_analisados[i].palavras_encontradas] :
                     i \in 1..n}
    IN [d EXCEPT !.resultados = @ \cup {linha},
                 !.anexos = @ \cup novos,
                 !.seq["resultados"] = rid,
                 !.seq["anexos"] = IF n > 0 THEN aid + n - 1 ELSE @]

----------------------------------------------------------------------------
(* salvar_curriculo_aprovado: the SQL statements *)

\* a lookup that also compares the message date
SelecionarAprovado_ComData(d, r, vaga_id) ==
    LET S == {l \in d.aprovados_por_vaga :
                /\ vaga_id # Nenhum
                /\ l.email_remetente = r.email_remetente
                /\ l.vaga_id = vaga_id
                /\ l.nome_arquivo = r.nome_arquivo
                /\ l.data_email = r.data_email}
    IN IF S = {} THEN Nenhum ELSE Minimo({l.id : l \in S})

\* SELECT id FROM aprovados_por_vaga WHERE email_remetente = ? AND vaga_id = ?
\* AND nome_arquivo = ?  (vaga_id = NULL matches no row)
SelecionarAprovado(d, r, vaga_id) ==
    LET S == {l \in d.aprovados_por_vaga :
                /\ vaga_id # Nenhum
                /\ l.email_remetente = r.email_remetente
                /\ l.vaga_id = vaga_id
                /\ l.nome_arquivo = r.nome_arquivo}
    IN IF S = {} THEN Nenhum ELSE Minimo({l.id : l \in S})

\* INSERT INTO aprovados_por_vaga; the column origem is not in the table: it
\* remembers the resultado the row was inserted for
InserirAprovado(d, r, nome_vaga, vaga_id, t) ==
    LET id == ProximoId(d, "aprovados_por_vaga") IN
    [d EXCEPT !.aprovados_por_vaga = @ \cup
                  {[id |-> id, vaga_id |-> vaga_id, nome_vaga |-> nome_vaga,
                    email_remetente |-> r.email_remetente,
                    assunto_email |-> r.assunto, nome_arquivo |-> r.nome_arquivo,
                    pontuacao |-> r.pontuacao, data_aprovacao |-> t,
                    data_email |-> r.data_email,
                    detalhes_curriculo |-> r.anexos_analisados,
                    origem |-> r]},
              !.seq["aprovados_por_vaga"] = id]

----------------------------------------------------------------------------
(* limpar_resultados and limpar_dados_antigos: the SQL statements *)

\* DELETE FROM resultados; DELETE FROM sqlite_sequence WHERE name="resultados"
ApagarResultados(d) ==
    [d EXCEPT !.resultados = {}, !.seq["resultados"] = 0]

\* DELETE FROM anexos WHERE resultado_id IN (old results);
\* DELETE FROM resultados WHERE data_analise < limit
ApagarAntigos(d, data_limite) ==
    LET velhos == {l.id : l \in {x \in d.resultados : x.data_analise < data_limite}} IN
    [d EXCEPT !.anexos = {a \in @ : a.resultado_id \notin velhos},
              !.resultados = {l \in @ : l.id \notin velhos}]

----------------------------------------------------------------------------
(* The handlers of DatabaseManager, each run to completion on its own     *)
(* connection (committed on return, rolled back on an exception)          *)

Ocioso == [p \in Procs |-> "ocioso"]

SemProcessos ==
    /\ pc = Ocioso
    /\ lock = Livre
    /\ UNCHANGED <<tx, lock, pc, arg, achado, ret, varsAnalise, varsEmail>>

Chamada(op, a, r) == [op |-> op, arg |-> a, ret |-> r]

\* the tables stay within the bounds of the model
CabeResultado(d, r) ==
    /\ ProximoId(d, "resultados") <= MaxId
    /\ ProximoId(d, "anexos") + Len(r.anexos_analisados) - 1 <= MaxAnexoId

\* an upsert that overwrites the stored score and status of an existing row
salvar_resultado_Reescreve(r, falha) ==
    /\ SemProcessos
    /\ LET existente == SelecionarResultado(db, r) IN
       IF existente # Nenhum
       THEN /\ db' = [db EXCEPT !.resultados =
                        {IF l.id = existente
                         THEN [l EXCEPT !.pontuacao = r.pontuacao, !.status = r.status]
                         ELSE l : l \in @}]
            /\ ultima' = Chamada("salvar_resultado", r, existente)
       ELSE IF falha
       THEN /\ db' = db
            /\ ultima' = Chamada("salvar_resultado", r, Nenhum)
       ELSE /\ CabeResultado(db, r)
            /\ db' = InserirResultado(db, r, agora)
            /\ ultima' = Chamada("salvar_resultado", r, ProximoId(db, "resultados"))
    /\ UNCHANGED agora

\* salvar_resultado(resultado); falha: an exception is raised by one of the
\* INSERT statements
salvar_resultado(r, falha) ==
    /\ SemProcessos
    /\ LET existente == SelecionarResultado(db, r) IN
       IF existente # Nenhum
       THEN /\ db' = db
            /\ ultima' = Chamada("salvar_resultado", r, existente)
       ELSE IF falha
       THEN /\ db' = db
            /\ ultima' = Chamada("salvar_resultado", r, Nenhum)
       ELSE /\ CabeResultado(db, r)
            /\ db' = InserirResultado(db, r, agora)
            /\ ultima' = Chamada("salvar_resultado", r, ProximoId(db, "resultados"))
    /\ UNCHANGED agora

\* salvar_curriculo_aprovado(resultado, nome_vaga, vaga_id)
salvar_curriculo_aprovado(r, nome_vaga, vaga_id) ==
    /\ SemProcessos
    /\ LET existente == SelecionarAprovado(db, r, vaga_id) IN
       IF existente # Nenhum
       THEN /\ db' = db
            /\ ultima' = Chamada("salvar_curriculo_aprovado", r, existente)
       ELSE /\ ProximoId(db, "aprovados_por_vaga") <= MaxId
            /\ db' = InserirAprovado(db, r, nome_vaga, vaga_id, agora)
            /\ ultima' = Chamada("salvar_curriculo_aprovado", r,
                                 ProximoId(db, "aprovados_por_vaga"))
    /\ UNCHANGED agora

\* the name of the job profile the run was started for
NomeDaVaga(vaga_id) == IF vaga_id = 1 THEN "dev" ELSE "rh"

\* an approval recorded for every result that is not rejected
DeveRegistrarAprovacao_SemStatus(r) == r.status # "Rejeitado" /\ r.vaga_id # Nenhum

\* the pipeline records an approval for the result it has just stored
DeveRegistrarAprovacao(r) == r.status = "Aprovado" /\ r.vaga_id # Nenhum

RegistrarAprovacao ==
    /\ ultima.op = "salvar_resultado"
    /\ DeveRegistrarAprovacao(ultima.arg)
    /\ salvar_curriculo_aprovado(ultima.arg, NomeDaVaga(ultima.arg.vaga_id),
                                 ultima.arg.vaga_id)

\* limpar_resultados(): returns the number of rows it removed
limpar_resultados ==
    /\ SemProcessos
    /\ db.resultados # {}
    /\ db' = ApagarResultados(db)
    /\ ultima' = Chamada("limpar_resultados", Nenhum, Cardinality(db.resultados))
    /\ UNCHANGED agora

\* limpar_dados_antigos(dias)
limpar_dados_antigos(dias) ==
    /\ SemProcessos
    /\ db' = ApagarAntigos(db, agora - dias)
    /\ db' # db
    /\ ultima' = Chamada("limpar_dados_antigos", dias, Nenhum)
    /\ UNCHANGED agora

\* time passes
Tique ==
    /\ agora < MaxTempo
    /\ agora' = agora + 1
    /\ UNCHANGED <<db, tx, lock, pc, arg, achado, ret, ultima, varsAnalise, varsEmail>>

BancoInicial ==
    /\ db = criar_tabelas
    /\ tx = criar_tabelas
    /\ lock = Livre
    /\ agora = 0
    /\ pc = Ocioso
    /\ arg = [p \in Procs |-> Nenhum]
    /\ achado = [p \in Procs |-> Nenhum]
    /\ ret = [p \in Procs |-> Nenhum]
    /\ ultima = Chamada("criar_tabelas", Nenhum, Nenhum)

\* the store, next to an analyzer that is not called
Init ==
    /\ BancoInicial
    /\ ambiente = AmbienteCompleto
    /\ palavras_chave_default = palavras_chave_iniciais
    /\ entrada = [email_data |-> Email("ana@x.com", <<>>),
                  palavras_chave_vaga |-> NaoFornecida]
    /\ disco = Disco
    /\ resultado = SemResultado
    /\ CategoriaInicial
    /\ EmailInicial

Next ==
    \/ \E r \in Resultados, falha \in BOOLEAN : salvar_resultado(r, falha)
    \/ RegistrarAprovacao

Spec == Init /\ [][Next]_vars

\* the store with its clean-up operations
NextLimpeza ==
    \/ \E r \in Resultados, falha \in BOOLEAN : salvar_resultado(r, falha)
    \/ limpar_resultados
    \/ \E dias \in 0..MaxTempo : limpar_dados_antigos(dias)
    \/ Tique

SpecLimpeza == Init /\ [][NextLimpeza]_vars

----------------------------------------------------------------------------
(* Concurrent callers: every call works on a connection of its own.  A     *)
(* SELECT outside a transaction reads the committed database.  The first   *)
(* INSERT or UPDATE of a call opens a transaction and takes the write lock *)
(* (a caller that finds it taken waits for it); the changes become visible *)
(* to the other connections at the commit that ends the with block.        *)

PodeChamar(p) == pc[p] \in {"ocioso", "retornou"}

\* salvar_resultado, lines 180-197: connect, SELECT, return the id found
sr_select(p, r) ==
    /\ PodeChamar(p)
    /\ arg' = [arg EXCEPT ![p] = r]
    /\ achado' = [achado EXCEPT ![p] = SelecionarResultado(db, r)]
    /\ IF achado'[p] # Nenhum
       THEN /\ ret' = [ret EXCEPT ![p] = achado'[p]]
            /\ pc' = [pc EXCEPT ![p] = "retornou"]
       ELSE /\ ret' = [ret EXCEPT ![p] = Nenhum]
            /\ pc' = [pc EXCEPT ![p] = "sr_insert"]
    /\ UNCHANGED <<db, tx, lock, agora, ultima, varsAnalise, varsEmail>>

\* salvar_resultado, lines 199-242: the INSERTs, inside a transaction
sr_insert(p) ==
    /\ pc[p] = "sr_insert"
    /\ lock = Livre
    /\ CabeResultado(db, arg[p])
    /\ lock' = p
    /\ tx' = InserirResultado(db, arg[p], agora)
    /\ pc' = [pc EXCEPT ![p] = "sr_commit"]
    /\ UNCHANGED <<db, agora, arg, achado, ret, ultima, varsAnalise, varsEmail>>

\* salvar_resultado, lines 244-246: commit and return the new id
sr_commit(p) ==
    /\ pc[p] = "sr_commit"
    /\ lock = p
    /\ db' = tx
    /\ lock' = Livre
    /\ ret' = [ret EXCEPT ![p] = tx.seq["resultados"]]
    /\ pc' = [pc EXCEPT ![p] = "retornou"]
    /\ UNCHANGED <<tx, agora, arg, achado, ultima, varsAnalise, varsEmail>>

NextConc ==
    \/ \E p \in Procs, r \in Resultados : sr_select(p, r)
    \/ \E p \in Procs : sr_insert(p)
    \/ \E p \in Procs : sr_commit(p)

SpecConc == Init /\ [][NextConc]_vars

\* salvar_vaga, lines 110-117: connect, UPDATE (opens the transaction)
sv_update(p, nome_vaga, palavras_chave) ==
    /\ PodeChamar(p)
    /\ lock = Livre
    /\ ProximoId(db, "vagas") <= MaxId
    /\ lock' = p
    /\ arg' = [arg EXCEPT ![p] = [nome_vaga |-> nome_vaga,
                                  palavras_chave |-> palavras_chave]]
    /\ tx' = DesativarVagas(db, nome_vaga)
    /\ pc' = [pc EXCEPT ![p] = "sv_insert"]
    /\ UNCHANGED <<db, agora, achado, ret, ultima, varsAnalise, varsEmail>>

\* salvar_vaga, lines 120-125: INSERT
sv_insert(p) ==
    /\ pc[p] = "sv_insert"
    /\ lock = p
    /\ tx' = InserirVaga(tx, arg[p].nome_vaga, arg[p].palavras_chave, agora)
    /\ pc' = [pc EXCEPT ![p] = "sv_commit"]
    /\ UNCHANGED <<db, lock, agora, arg, achado, ret, ultima, varsAnalise, varsEmail>>

\* salvar_vaga, lines 126-129: commit and return the new id
sv_commit(p) ==
    /\ pc[p] = "sv_commit"
    /\ lock = p
    /\ db' = tx
    /\ lock' = Livre
    /\ ret' = [ret EXCEPT ![p] = tx.seq["vagas"]]
    /\ ultima' = Chamada("salvar_vaga", arg[p], tx.seq["vagas"])
    /\ pc' = [pc EXCEPT ![p] = "retornou"]
    /\ UNCHANGED <<tx, agora, arg, achado, varsAnalise, varsEmail>>

\* obter_vagas_ativas(): one SELECT
obter_vagas_ativas(p) ==
    /\ PodeChamar(p)
    /\ ultima' = Chamada("obter_vagas_ativas", Nenhum, SelecionarVagasAtivas(db))
    /\ pc' = [pc EXCEPT ![p] = "retornou"]
    /\ UNCHANGED <<db, tx, lock, agora, arg, achado, ret, varsAnalise, varsEmail>>

NextVagas ==
    \/ \E p \in Procs, n \in NomesVaga, l \in ListasPalavras : sv_update(p, n, l)
    \/ \E p \in Procs : sv_insert(p)
    \/ \E p \in Procs : sv_commit(p)
    \/ \E p \in Procs : obter_vagas_ativas(p)
    \/ Tique

SpecVagas == Init /\ [][NextVagas]_vars

----------------------------------------------------------------------------
(* salvar_resultado, statement by statement: the INSERTs run inside the     *)
(* transaction of the with block, on the working copy of the connection; an *)
(* exception raised by a statement leaves the with block, which rolls the   *)
(* transaction back, and the handler returns None.                          *)

\* lines 206-222: INSERT INTO resultados
InserirLinhaDoResultado(d, r, t) ==
    [d EXCEPT !.resultados =
                  @ \cup {[id |-> ProximoId(d, "resultados"), data_analise |-> t,
                           email_remetente |-> r.email_remetente, assunto |-> r.assunto,
                           data_email |-> r.data_email, nome_arquivo |-> r.nome_arquivo,
                           pontuacao |-> r.pontuacao, status |-> r.status,
                           detalhes_json |-> r.anexos_analisados, vaga_id |-> r.vaga_id]},
              !.seq["resultados"] = ProximoId(d, "resultados")]

\* lines 226-242: INSERT INTO anexos for the i-th analysed attachment
InserirAnexo(d, r, i, resultado_id) ==
    [d EXCEPT !.anexos =
                  @ \cup {[id |-> ProximoId(d, "anexos"), resultado_id |-> resultado_id,
                           nome_arquivo |-> r.anexos_analisados[i].nome_arquivo,
                           tipo_arquivo |-> r.anexos_analisados[i].tipo_arquivo,
                           tamanho_texto |-> r.anexos_analisados[i].tamanho_texto,
                           pontuacao |-> r.anexos_analisados[i].pontuacao,
                           palavras_encontradas |->
                               r.anexos_analisados[i].palavras_encontradas]},
              !.seq["anexos"] = ProximoId(d, "anexos")]

\* the anexos rows the open transaction has inserted for its result
AnexosInseridos(d) ==
    Cardinality({a \in d.anexos : a.resultado_id = d.seq["resultados"]})

\* an exception that leaves the partial changes in the database
Desfazer_Nada(confirmado, parcial) == parcial

\* the rollback at the exit of the with block: the committed database stays
Desfazer(confirmado, parcial) == confirmado

\* lines 206-222: the first INSERT opens the transaction
tr_resultado(p) ==
    /\ pc[p] = "sr_insert"
    /\ lock = Livre
    /\ CabeResultado(db, arg[p])
    /\ lock' = p
    /\ tx' = InserirLinhaDoResultado(db, arg[p], agora)
    /\ pc' = [pc EXCEPT ![p] = "tr_anexos"]
    /\ UNCHANGED <<db, agora, arg, achado, ret, ultima, varsAnalise, varsEmail>>

\* lines 226-242: the INSERT of the next attachment
tr_anexo(p) ==
    /\ pc[p] = "tr_anexos"
    /\ lock = p
    /\ AnexosInseridos(tx) < Len(arg[p].anexos_analisados)
    /\ tx' = InserirAnexo(tx, arg[p], AnexosInseridos(tx) + 1, tx.seq["resultados"])
    /\ UNCHANGED <<db, lock, agora, pc, arg, achado, ret, ultima, varsAnalise, varsEmail>>

\* lines 244-246: commit and return the new id
tr_commit(p) ==
    /\ pc[p] = "tr_anexos"
    /\ lock = p
    /\ AnexosInseridos(tx) = Len(arg[p].anexos_analisados)
    /\ db' = tx
    /\ lock' = Livre
    /\ ret' = [ret EXCEPT ![p] = tx.seq["resultados"]]
    /\ pc' = [pc EXCEPT ![p] = "retornou"]
    /\ ultima' = Chamada("salvar_resultado", arg[p], tx.seq["resultados"])
    /\ UNCHANGED <<tx, agora, arg, achado, varsAnalise, varsEmail>>

\* lines 248-250: a statement of lines 200-242 raises; the working copy is
\* left as the statement found it, and is not used again
tr_excecao(p) ==
    /\ \/ pc[p] = "sr_insert" /\ lock = Livre /\ tx' = db
       \/ pc[p] = "tr_anexos" /\ lock = p /\ tx' = tx
    /\ db' = Desfazer(db, tx')
    /\ lock' = Livre
    /\ ret' = [ret EXCEPT ![p] = Nenhum]
    /\ pc' = [pc EXCEPT ![p] = "retornou"]
    /\ ultima' = Chamada("salvar_resultado", arg[p], Nenhum)
    /\ UNCHANGED <<agora, arg, achado, varsAnalise, varsEmail>>

\* one caller of salvar_resultado
NextTransacao ==
    \/ \E r \in Resultados : sr_select("p1", r)
    \/ tr_resultado("p1")
    \/ tr_anexo("p1")
    \/ tr_commit("p1")
    \/ tr_excecao("p1")

SpecTransacao == Init /\ [][NextTransacao]_vars

----------------------------------------------------------------------------
(* CurriculumAnalyzer: the calls *)

\* analisar_curriculo(email_data, palavras_chave_vaga), once for the message
analisar_curriculo ==
    /\ resultado = SemResultado
    /\ \E r \in {AnaliseDoCurriculo(disco, entrada.email_data,
                                     entrada.palavras_chave_vaga,
                                     palavras_chave_default, ambiente, agora)} :
          /\ resultado' = r.resultado
          /\ disco' = r.disco
    /\ UNCHANGED <<ambiente, palavras_chave_default, entrada, varsCategoria, varsBanco, varsEmail>>

\* definir_palavras_chave_customizadas(palavras_chave), with a list
definir_palavras_chave_customizadas(palavras_chave) ==
    /\ palavras_chave_default' =
           [i \in 1..Len(palavras_chave) |-> strip(lower(palavras_chave[i]))]
    /\ palavras_chave_default' # palavras_chave_default
    /\ UNCHANGED <<ambiente, entrada, disco, resultado, varsCategoria, varsBanco, varsEmail>>

\* the libraries matter to the PDF and DOCX attachments only
DependeDoAmbiente(email_data) ==
    \E i \in 1..Len(email_data.anexos) : email_data.anexos[i].tipo \in {"pdf", "docx"}

InitAnalise ==
    /\ BancoInicial
    /\ ambiente \in Ambientes
    /\ palavras_chave_default = palavras_chave_iniciais
    /\ entrada \in Entradas
    /\ ambiente = AmbienteCompleto \/ DependeDoAmbiente(entrada.email_data)
    /\ disco = Disco
    /\ resultado = SemResultado
    /\ CategoriaInicial
    /\ EmailInicial

NextAnalise ==
    \/ analisar_curriculo
    \/ \E l \in ListasCustomizadas : definir_palavras_chave_customizadas(l)

SpecAnalise == InitAnalise /\ [][NextAnalise]_vars

\* _calcular_score_categoria(texto, keywords), once
ChamarScoreCategoria ==
    /\ categoria = SemResultado
    /\ categoria' = calcular_score_categoria(chamada.texto, chamada.keywords)
    /\ UNCHANGED <<chamada, varsCurriculo, varsBanco, varsEmail>>

InitCategoria ==
    /\ BancoInicial
    /\ ambiente = AmbienteCompleto
    /\ palavras_chave_default = palavras_chave_iniciais
    /\ entrada = [email_data |-> Email("ana@x.com", <<>>),
                  palavras_chave_vaga |-> NaoFornecida]
    /\ disco = Disco
    /\ resultado = SemResultado
    /\ chamada \in [texto : TextosDaCategoria, keywords : ListasDaCategoria]
    /\ categoria = SemResultado
    /\ EmailInicial

NextCategoria == ChamarScoreCategoria

SpecCategoria == InitCategoria /\ [][NextCategoria]_vars

----------------------------------------------------------------------------
(* EmailClient.buscar_emails_com_anexos: the steps of the run *)

\* lines 64-112: the session and the searches
Buscar ==
    /\ etapa = "inicio"
    /\ \E r \in {IF todos_emails THEN BuscarTodos(servidor)
                 ELSE BuscarRecentes(servidor)} :
         IF ~servidor.conectado
         THEN /\ etapa' = "fim"
              /\ retorno' = Levanta
              /\ UNCHANGED <<buscas, message_numbers>>
         ELSE IF ~servidor.ativa
         THEN /\ etapa' = "fim"
              /\ retorno' = Retorna(<<>>)
              /\ UNCHANGED <<buscas, message_numbers>>
         ELSE /\ buscas' = r.buscas
              /\ message_numbers' = r.message_numbers
              /\ etapa' = IF r.falhou THEN "fim" ELSE "lista"
              /\ retorno' = IF r.falhou THEN Retorna(<<>>) ELSE retorno
    /\ UNCHANGED <<servidor, todos_emails, message_list, posicao, comandos, erro,
                   sondagens, emails_processados, varsCliente, varsCaixa,
                   varsBanco, varsAnalise>>

\* lines 114-137: the list of the messages to go through
PrepararLista ==
    /\ etapa = "lista"
    /\ IF message_numbers = <<>>
       THEN /\ etapa' = "fim"
            /\ retorno' = Retorna(<<>>)
            /\ UNCHANGED message_list
       ELSE /\ message_list' = Inverter(Limitar(todos_emails, message_numbers))
            /\ etapa' = "laco"
            /\ UNCHANGED retorno
    /\ UNCHANGED <<servidor, todos_emails, buscas, message_numbers, posicao, comandos,
                   erro, sondagens, emails_processados, varsCliente, varsCaixa,
                   varsBanco, varsAnalise>>

\* a pass of the loop in which an error ends the run with an empty list
ProcessarEmail_Interrompe ==
    /\ etapa = "laco"
    /\ posicao < Len(message_list)
    /\ \E t \in Agora(relogio) :
       \E p \in {ProcessarMensagem(Mensagens[servidor.caixa[message_list[posicao + 1]]],
                                   message_list[posicao + 1], t)} :
         /\ comandos' = p.comandos
         /\ erro' = p.erro
         /\ emails_processados' = emails_processados \o p.coletados
         /\ etapa' = IF p.erro THEN "fim" ELSE etapa
         /\ retorno' = IF p.erro THEN Retorna(<<>>) ELSE retorno
         /\ lidas' = Marcar(lidas, p)
         /\ relogio' = t
         /\ temporarios' = Gravar(temporarios, p)
    /\ posicao' = posicao + 1
    /\ sondagens' = sondagens + 1
    /\ UNCHANGED <<servidor, todos_emails, buscas, message_numbers, message_list,
                   varsCliente, varsBanco, varsAnalise>>

\* lines 146-228: the next message of the list
ProcessarEmail ==
    /\ etapa = "laco"
    /\ posicao < Len(message_list)
    /\ \E t \in Agora(relogio) :
       \E p \in {ProcessarMensagem(Mensagens[servidor.caixa[message_list[posicao + 1]]],
                                   message_list[posicao + 1], t)} :
         /\ comandos' = p.comandos
         /\ erro' = p.erro
         /\ emails_processados' = emails_processados \o p.coletados
         /\ lidas' = Marcar(lidas, p)
         /\ relogio' = t
         /\ temporarios' = Gravar(temporarios, p)
    /\ posicao' = posicao + 1
    /\ sondagens' = sondagens + 1
    /\ UNCHANGED <<servidor, todos_emails, etapa, buscas, message_numbers, message_list,
                   retorno, varsCliente, varsBanco, varsAnalise>>

\* lines 235-236: the list is through
Retornar ==
    /\ etapa = "laco"
    /\ posicao = Len(message_list)
    /\ etapa' = "fim"
    /\ retorno' = Retorna(emails_processados)
    /\ UNCHANGED <<servidor, todos_emails, buscas, message_numbers, message_list,
                   posicao, comandos, erro, sondagens, emails_processados,
                   varsCliente, varsCaixa, varsBanco, varsAnalise>>

InitEmail ==
    /\ BancoInicial
    /\ ambiente = AmbienteCompleto
    /\ palavras_chave_default = palavras_chave_iniciais
    /\ entrada = [email_data |-> Email("ana@x.com", <<>>),
                  palavras_chave_vaga |-> NaoFornecida]
    /\ disco = Disco
    /\ resultado = SemResultado
    /\ CategoriaInicial
    /\ servidor \in Servidores
    /\ todos_emails \in BOOLEAN
    /\ etapa = "inicio"
    /\ buscas = <<>>
    /\ message_numbers = <<>>
    /\ message_list = <<>>
    /\ posicao = 0
    /\ comandos = <<>>
    /\ erro = FALSE
    /\ sondagens = 0
    /\ emails_processados = <<>>
    /\ retorno = SemRetorno
    /\ ClienteInicial
    /\ CaixaInicial

NextEmail ==
    \/ Buscar
    \/ PrepararLista
    \/ ProcessarEmail
    \/ Retornar

SpecEmail == InitEmail /\ [][NextEmail]_vars

----------------------------------------------------------------------------
(* EmailClient: conectar, desconectar and the calls between them *)

\* the session conectar leaves in self.imap_server when login raises: the
\* object of line 31, not authenticated; the provider answers its NOOP, and
\* imaplib raises on every SEARCH
NaoAutenticado(p) == Provedor(TRUE, TRUE, "rejeita", "rejeita", "rejeita", p.desde, p.caixa)

\* the mailbox of the account
CaixaDaConta == <<"cv_pdf", "sem_anexo">>

\* the account's provider, as conectar may find it
Contas ==
    { Provedor(TRUE, ativa, anexos, "aceita", "aceita", desde, CaixaDaConta) :
        ativa \in BOOLEAN, anexos \in {"aceita", "rejeita"},
        desde \in {1, Len(CaixaDaConta) + 1} }

\* the value conectar or desconectar returned
Conexao(op, valor) == [op |-> op, ret |-> valor]

\* lines 18-45: conectar, when the connection to p can be opened or not
\* (rede) and p takes the password or not (credencial)
conectar(p, rede, credencial) ==
    /\ etapa = "inicio"
    /\ IF rede = "falha"
       THEN /\ conexao' = Conexao("conectar", "False")
            /\ UNCHANGED servidor
       ELSE IF credencial = "errada"
       THEN /\ conexao' = Conexao("conectar", "False")
            /\ servidor' = NaoAutenticado(p)
       ELSE /\ conexao' = Conexao("conectar", "True")
            /\ servidor' = p
    /\ UNCHANGED <<todos_emails, etapa, buscas, message_numbers, message_list, posicao,
                   comandos, erro, sondagens, emails_processados, retorno,
                   triagem_running, parada, varsCaixa, varsBanco, varsAnalise>>

\* lines 340-349: desconectar
desconectar ==
    /\ etapa = "inicio"
    /\ conexao' = Conexao("desconectar", "None")
    /\ servidor' = IF servidor.conectado THEN SemServidor ELSE servidor
    /\ UNCHANGED <<todos_emails, etapa, buscas, message_numbers, message_list, posicao,
                   comandos, erro, sondagens, emails_processados, retorno,
                   triagem_running, parada, varsCaixa, varsBanco, varsAnalise>>

\* lines 47-58: the caller has the result of the run, and the next call of
\* buscar_emails_com_anexos is with todos_emails = todos and new locals
NovaChamada(todos) ==
    /\ etapa = "fim"
    /\ todos_emails' = todos
    /\ etapa' = "inicio"
    /\ buscas' = <<>>
    /\ message_numbers' = <<>>
    /\ message_list' = <<>>
    /\ posicao' = 0
    /\ comandos' = <<>>
    /\ erro' = FALSE
    /\ sondagens' = 0
    /\ emails_processados' = <<>>
    /\ retorno' = SemRetorno
    /\ UNCHANGED <<servidor, varsCliente, varsCaixa, varsBanco, varsAnalise>>

\* a client just constructed (lines 14-16)
InitConexao ==
    /\ BancoInicial
    /\ ambiente = AmbienteCompleto
    /\ palavras_chave_default = palavras_chave_iniciais
    /\ entrada = [email_data |-> Email("ana@x.com", <<>>),
                  palavras_chave_vaga |-> NaoFornecida]
    /\ disco = Disco
    /\ resultado = SemResultado
    /\ CategoriaInicial
    /\ EmailInicial

NextConexao ==
    \/ \E p \in Contas, rede \in {"ok", "falha"}, credencial \in {"ok", "errada"} :
           conectar(p, rede, credencial)
    \/ desconectar
    \/ \E todos \in BOOLEAN : NovaChamada(todos)
    \/ Buscar
    \/ PrepararLista
    \/ ProcessarEmail
    \/ Retornar

SpecConexao == InitConexao /\ [][NextConexao]_vars

----------------------------------------------------------------------------
(* The triage run of the application and its stop button *)

TamanhoDoLote == 100   \* batch_size

\* a mailbox of one message more than a batch
CaixaDeDoisLotes ==
    [i \in 1..(TamanhoDoLote + 1) |->
        IF i \in {1, TamanhoDoLote + 1} THEN "cv_pdf" ELSE "sem_anexo"]

\* app.py lines 644-646: iniciar_triagem sets the flag of the run
IniciarTriagem ==
    /\ ~triagem_running
    /\ etapa = "inicio"
    /\ triagem_running' = TRUE
    /\ UNCHANGED <<servidor, todos_emails, etapa, buscas, message_numbers, message_list,
                   posicao, comandos, erro, sondagens, emails_processados, retorno,
                   conexao, parada, varsCaixa, varsBanco, varsAnalise>>

\* app.py lines 594-599: the stop button clears the flag
PararTriagem ==
    /\ triagem_running
    /\ triagem_running' = FALSE
    /\ parada' = posicao
    /\ UNCHANGED <<servidor, todos_emails, etapa, buscas, message_numbers, message_list,
                   posicao, comandos, erro, sondagens, emails_processados, retorno,
                   conexao, varsCaixa, varsBanco, varsAnalise>>

InitTriagem ==
    /\ BancoInicial
    /\ ambiente = AmbienteCompleto
    /\ palavras_chave_default = palavras_chave_iniciais
    /\ entrada = [email_data |-> Email("ana@x.com", <<>>),
                  palavras_chave_vaga |-> NaoFornecida]
    /\ disco = Disco
    /\ resultado = SemResultado
    /\ CategoriaInicial
    /\ servidor \in { SemServidor,
                       Provedor(TRUE, FALSE, "aceita", "aceita", "aceita", 1, <<"cv_pdf">>) }
                     \cup { Provedor(TRUE, TRUE, anexos, "aceita", "aceita", 1, caixa) :
                              anexos \in {"aceita", "rejeita"},
                              caixa \in {<<>>, <<"cv_pdf", "cv_doc">>, CaixaDeDoisLotes} }
    /\ todos_emails \in BOOLEAN
    /\ etapa = "inicio"
    /\ buscas = <<>>
    /\ message_numbers = <<>>
    /\ message_list = <<>>
    /\ posicao = 0
    /\ comandos = <<>>
    /\ erro = FALSE
    /\ sondagens = 0
    /\ emails_processados = <<>>
    /\ retorno = SemRetorno
    /\ ClienteInicial
    /\ CaixaInicial

NextTriagem ==
    \/ IniciarTriagem
    \/ PararTriagem
    \/ Buscar
    \/ PrepararLista
    \/ ProcessarEmail
    \/ Retornar

SpecTriagem == InitTriagem /\ [][NextTriagem]_vars

----------------------------------------------------------------------------
(* Properties of the result store *)

\* a step of salvar_resultado: the call is the last finished one afterwards
FoiSalvarResultado == ultima'.op = "salvar_resultado"

FoiSalvarAprovado == ultima'.op = "salvar_curriculo_aprovado"

TriploDe(l) == <<l.vaga_id, l.email_remetente, l.nome_arquivo>>

LinhasDoTriplo(d, t) == {l \in d.aprovados_por_vaga : TriploDe(l) = t}

AnexosDe(d, id) == {a \in d.anexos : a.resultado_id = id}

\* C1: after any sequence of salvar_resultado calls the table resultados holds
\* at most one row per identity key (email_remetente, assunto, data_email),
\* and a call whose key is already stored returns the id of that row and
\* stores nothing
UmaLinhaPorChave ==
    \A l1 \in db.resultados, l2 \in db.resultados :
        ChaveDe(l1) = ChaveDe(l2) => l1 = l2

UmaLinhaPorTriplo ==
    \A l1 \in db.aprovados_por_vaga, l2 \in db.aprovados_por_vaga :
        TriploDe(l1) = TriploDe(l2) => l1 = l2

C2_AtomicoPorChave ==
    \A p \in Procs, q \in Procs :
        (/\ p # q
         /\ pc[p] = "retornou"
         /\ pc[q] = "retornou"
         /\ ChaveDe(arg[p]) = ChaveDe(arg[q])) =>
            /\ ret[p] = ret[q]
            /\ Cardinality(LinhasDaChave(db, ChaveDe(arg[p]))) = 1

\* C6: at most one job profile per nome_vaga is active; the profile a
\* salvar_vaga call has just committed is the only active one of its name;
\* obter_vagas_ativas returns exactly the active profiles
VagasAtivas(d) == {v \in d.vagas : v.ativa}

C6_UmaVagaAtivaPorNome ==
    /\ \A v1 \in VagasAtivas(db), v2 \in VagasAtivas(db) :
          v1.nome_vaga = v2.nome_vaga => v1 = v2
    /\ ultima.op = "salvar_vaga" =>
          \A v \in db.vagas :
              v.nome_vaga = ultima.arg.nome_vaga => (v.ativa <=> v.id = ultima.ret)
    /\ ultima.op = "obter_vagas_ativas" =>
          /\ {ultima.ret[i].id : i \in 1..Len(ultima.ret)} = {v.id : v \in VagasAtivas(db)}
          /\ \A i \in 1..Len(ultima.ret), j \in 1..Len(ultima.ret) :
                ultima.ret[i].nome = ultima.ret[j].nome => i = j

\* C6 witness: two callers saved a profile of the same name, the older row
\* is inactive, and obter_vagas_ativas has returned the newer one alone
C6_Testemunha ==
    /\ pc = [p \in Procs |-> "retornou"]
    /\ \E v1 \in db.vagas, v2 \in db.vagas :
          /\ v1.nome_vaga = v2.nome_vaga
          /\ v1.id < v2.id
          /\ ~v1.ativa /\ v2.ativa
          /\ {ret[p] : p \in Procs} = {v1.id, v2.id}
          /\ ultima.op = "obter_vagas_ativas"
          /\ Len(ultima.ret) = 1
          /\ ultima.ret[1].id = v2.id

\* the anexos rows of the committed database that reference the row id
AnexosDaLinha(id) == {a \in db.anexos : a.resultado_id = id}

\* the stored row has one anexos row for each attachment of its result
LinhaCompleta(l) ==
    /\ Cardinality(AnexosDaLinha(l.id)) = Len(l.detalhes_json)
    /\ \A i \in 1..Len(l.detalhes_json) :
           \E a \in AnexosDaLinha(l.id) : a.nome_arquivo = l.detalhes_json[i].nome_arquivo

\* C25: salvar_resultado is all-or-nothing: every stored result row has
\* exactly one anexos row for each of its analysed attachments, and no anexos
\* row is stored without its result row; a call that returned an id stored
\* (or found) the row of its key, and a call that returned None after an
\* error stored neither the row nor any anexos row.
C25_TudoOuNada ==
    /\ \A l \in db.resultados : LinhaCompleta(l)
    /\ \A a \in db.anexos : \E l \in db.resultados : l.id = a.resultado_id
    /\ pc["p1"] = "retornou" =>
          IF ret["p1"] = Nenhum
          THEN LinhasDaChave(db, ChaveDe(arg["p1"])) = {}
          ELSE \E l \in LinhasDaChave(db, ChaveDe(arg["p1"])) : l.id = ret["p1"]

\* a call failed after it had inserted the result row and one of its two
\* anexos rows, and returned None; the database holds neither
C25_Testemunha ==
    /\ pc["p1"] = "retornou"
    /\ ret["p1"] = Nenhum
    /\ Len(arg["p1"].anexos_analisados) = 2
    /\ Cardinality(tx.resultados) = Cardinality(db.resultados) + 1
    /\ Cardinality(tx.anexos) = Cardinality(db.anexos) + 1
    /\ db.resultados # {}

\* C26: after any sequence of salvar_resultado, limpar_resultados and
\* limpar_dados_antigos every anexos row references an existing resultados
\* row, and that row is the result the anexos row was inserted with: the row
\* names the attachment, and has no more anexos rows than attachments.
C26_IntegridadeReferencial ==
    /\ \A a \in db.anexos :
           \E l \in db.resultados :
               /\ l.id = a.resultado_id
               /\ \E i \in 1..Len(l.detalhes_json) :
                      l.detalhes_json[i].nome_arquivo = a.nome_arquivo
    /\ \A l \in db.resultados :
           Cardinality({a \in db.anexos : a.resultado_id = l.id}) = Len(l.detalhes_json)

----------------------------------------------------------------------------
(* Properties of the analyzer *)

\* analisar_curriculo has returned
Analisado == resultado # SemResultado

NumAnexos == Len(entrada.email_data.anexos)

\* the text _extrair_texto hands to the analysis of the i-th attachment
TextoDoAnexo(i) ==
    extrair_texto(Disco, entrada.email_data.anexos[i].caminho_temp,
                  entrada.email_data.anexos[i].tipo, ambiente)

\* no attachment of the message yields a text
SemTextoExtraido == \A i \in 1..NumAnexos : TextoDoAnexo(i) = <<>>

\* C7: when no extracted text exists for a message (every attachment fails
\* extraction, or the message has no attachment), analisar_curriculo returns
\* the status Erro with the score 0.
C7_SemTextoDaErro ==
    (Analisado /\ SemTextoExtraido) =>
        /\ resultado.status = "Erro"
        /\ resultado.pontuacao = Zero

\* the call was made with a list of keywords of a job
VagaFornecida == entrada.palavras_chave_vaga.fornecida

\* the correspondence score of the i-th attachment with the keywords of the
\* job, as line 329 computes it
CorrespondenciaDoAnexo(i) ==
    verificar_correspondencia_vaga(lower(TextoDoAnexo(i)),
                                   entrada.palavras_chave_vaga.lista)

\* the i-th attachment has a text whose correspondence score is below 2.0
AbaixoDoFiltro(i) ==
    /\ TextoDoAnexo(i) # <<>>
    /\ MenorQue(CorrespondenciaDoAnexo(i), Fracao(20, 1))

\* the breakdown of a rejection: the reason and the correspondence score,
\* and no score of a category
SoRejeicao(analisado) ==
    /\ {"motivo_rejeicao", "correspondencia_score"} \subseteq DOMAIN analisado.detalhes
    /\ DOMAIN analisado.detalhes \cap
           {"palavras_chave_vaga", "formacao", "experiencia", "habilidades"} = {}

\* C8: whenever the keywords of a job are supplied and the correspondence
\* score of a curriculum is below 2.0, the curriculum scores 0 and its
\* breakdown holds the rejection only, without any category score; a message
\* all of whose curricula are so rejected has the score 0 and the status
\* Rejeitado.
C8_FiltroDeRelevancia ==
    (Analisado /\ VagaFornecida /\ resultado.status # "Erro") =>
        /\ \A i \in 1..NumAnexos :
              AbaixoDoFiltro(i) =>
                  /\ resultado.anexos_analisados[i].pontuacao = 0
                  /\ SoRejeicao(resultado.anexos_analisados[i])
        /\ (NumAnexos > 0 /\ \A i \in 1..NumAnexos : AbaixoDoFiltro(i)) =>
              /\ resultado.pontuacao = Zero
              /\ resultado.status = "Rejeitado"

\* C9: the relevance filter matches on normalized forms: the correspondence
\* score of a text with the keywords of a job is the score of the same text
\* written without diacritics, and that is the score a rejection records.
C9_CorrespondenciaNormalizada ==
    (Analisado /\ VagaFornecida /\ resultado.status # "Erro") =>
        \A i \in 1..NumAnexos :
            TextoDoAnexo(i) # <<>> =>
                /\ CorrespondenciaDoAnexo(i) =
                       verificar_correspondencia_vaga(
                           normalizar_texto(TextoDoAnexo(i)),
                           entrada.palavras_chave_vaga.lista)
                /\ "correspondencia_score" \in DOMAIN resultado.anexos_analisados[i].detalhes =>
                       resultado.anexos_analisados[i].detalhes.correspondencia_score =
                           verificar_correspondencia_vaga(
                               normalizar_texto(TextoDoAnexo(i)),
                               entrada.palavras_chave_vaga.lista)

\* the floats 3.0 and 1.5 of lines 137 and 139
TresVirgulaZero == <<3, 0, 0, 0>>
UmVirgulaCinco == <<1, Base \div 2, 0, 0>>

\* C10: the thresholds of the score of a message hold at their boundaries: a
\* score of 3.0 or more is Aprovado, a score of 1.5 or more and below 3.0 is
\* Revisar, a score below 1.5 is Rejeitado.
C10_Limiares ==
    (Analisado /\ resultado.status # "Erro") =>
        /\ MaiorOuIgual(resultado.pontuacao, TresVirgulaZero)
              => resultado.status = "Aprovado"
        /\ (/\ MaiorOuIgual(resultado.pontuacao, UmVirgulaCinco)
            /\ ~MaiorOuIgual(resultado.pontuacao, TresVirgulaZero))
              => resultado.status = "Revisar"
        /\ ~MaiorOuIgual(resultado.pontuacao, UmVirgulaCinco)
              => resultado.status = "Rejeitado"

\* a message of two attachments whose score is exactly 1.5 is to be revised
C10_Testemunha ==
    /\ Analisado
    /\ resultado.status = "Revisar"
    /\ NumAnexos = 2
    /\ resultado.pontuacao = UmVirgulaCinco

\* the sum of the scores of the attachments of the message, in tenths
SomaDosAnexos ==
    Somar([i \in 1..NumAnexos |-> resultado.anexos_analisados[i].pontuacao])

\* the float nearest to the arithmetic mean of the scores of the attachments
MediaAritmetica ==
    FlutuanteDe(QuocienteExato(<<SomaDosAnexos, 0, 0, 0>>, 10 * NumAnexos))

\* two floats that differ in their last bits at most: they round to the same
\* expansion of BitsDaParte places after the binary point
Proximos(a, b) ==
    ArredondarEm(a, FALSE, BitsInteiros + BitsDaParte) =
        ArredondarEm(b, FALSE, BitsInteiros + BitsDaParte)

\* the status of the arithmetic mean of the scores of the attachments
StatusDaMediaAritmetica ==
    IF SomaDosAnexos >= 30 * NumAnexos THEN "Aprovado"
    ELSE IF SomaDosAnexos >= 15 * NumAnexos THEN "Revisar"
    ELSE "Rejeitado"

\* C11: the score of a message is the arithmetic mean of the scores of all
\* its attachments (up to the last bits of the float), an attachment without
\* a text counting as 0, and the status of the message is the status of that
\* mean.
C11_MediaAritmetica ==
    (Analisado /\ resultado.status # "Erro" /\ NumAnexos > 0) =>
        /\ Len(resultado.anexos_analisados) = NumAnexos
        /\ \A i \in 1..NumAnexos :
              TextoDoAnexo(i) = <<>> => resultado.anexos_analisados[i].pontuacao = 0
        /\ Proximos(resultado.pontuacao, MediaAritmetica)
        /\ resultado.status = StatusDaMediaAritmetica

\* a job profile was supplied: a list of keywords that is not empty
ComPerfil == VagaFornecida /\ entrada.palavras_chave_vaga.lista # <<>>

\* the i-th attachment has a text that passes the relevance filter of the job
PassaNoFiltro(i) ==
    /\ TextoDoAnexo(i) # <<>>
    /\ ~MenorQue(CorrespondenciaDoAnexo(i), Fracao(20, 1))

\* the score of the text of the i-th attachment for the keywords of the job
ScoreDaVaga(i) ==
    calcular_score_categoria(lower(TextoDoAnexo(i)),
                             entrada.palavras_chave_vaga.lista).pontuacao

\* the sum of the three category scores of a breakdown, as a fraction
SomaDasCategorias(detalhes) ==
    Fracao(detalhes.formacao.pontuacao.num * detalhes.experiencia.pontuacao.den
               * detalhes.habilidades.pontuacao.den
           + detalhes.experiencia.pontuacao.num * detalhes.formacao.pontuacao.den
               * detalhes.habilidades.pontuacao.den
           + detalhes.habilidades.pontuacao.num * detalhes.formacao.pontuacao.den
               * detalhes.experiencia.pontuacao.den,
           detalhes.formacao.pontuacao.den * detalhes.experiencia.pontuacao.den
               * detalhes.habilidades.pontuacao.den)

\* the score, in tenths, is the fraction num/den rounded to a whole number
EhArredondamento(pontuacao, num, den) ==
    /\ 2 * pontuacao * den - 2 * num <= den
    /\ 2 * num - 2 * pontuacao * den <= den

\* the score is 0.7 x vaga + 0.3 x (soma / 3), to one decimal
EhPonderada(pontuacao, vaga, soma) ==
    EhArredondamento(pontuacao, 7 * vaga.num * soma.den + soma.num * vaga.den,
                     10 * vaga.den * soma.den)

\* the score is soma / 3, to one decimal
EhMedia(pontuacao, soma) == EhArredondamento(pontuacao, soma.num, 3 * soma.den)

\* the breakdown holds the scores of the three categories
TemCategorias(analisado) ==
    /\ "detalhes" \in DOMAIN analisado
    /\ {"formacao", "experiencia", "habilidades"} \subseteq DOMAIN analisado.detalhes

\* C14: for a text that passes the filter of a job profile the score of the
\* attachment is 0.7 x the score for the keywords of the job + 0.3 x the
\* average of formacao, experiencia and habilidades; without a job profile it
\* is that average; nothing else, such as a doubled job score, enters it (the
\* score is kept to one decimal).
C14_Ponderacao ==
    (Analisado /\ resultado.status # "Erro") =>
        \A i \in 1..NumAnexos :
            /\ (ComPerfil /\ PassaNoFiltro(i)) =>
                  /\ TemCategorias(resultado.anexos_analisados[i])
                  /\ EhPonderada(resultado.anexos_analisados[i].pontuacao,
                                 ScoreDaVaga(i),
                                 SomaDasCategorias(resultado.anexos_analisados[i].detalhes))
            /\ (~VagaFornecida /\ TextoDoAnexo(i) # <<>>) =>
                  /\ TemCategorias(resultado.anexos_analisados[i])
                  /\ EhMedia(resultado.anexos_analisados[i].pontuacao,
                             SomaDasCategorias(resultado.anexos_analisados[i].detalhes))

\* the i-th attachment of the message has the format tag doc
EhDoc(i) == entrada.email_data.anexos[i].tipo = "doc"

\* C24: the extraction of an attachment of the format doc always fails: the
\* attachment is recorded as not extracted, with the score 0, and nothing of
\* it is scored (its result has no breakdown).
C24_DocNaoExtraido ==
    (Analisado /\ resultado.status # "Erro") =>
        \A i \in 1..NumAnexos :
            EhDoc(i) =>
                /\ ~resultado.anexos_analisados[i].texto_extraido
                /\ resultado.anexos_analisados[i].pontuacao = 0
                /\ "detalhes" \notin DOMAIN resultado.anexos_analisados[i]

\* C30: the job mode depends on a list of keywords of a job being supplied,
\* not on its content: for every call with a list, the empty list and a list
\* equal to the current default list included, a text below the relevance
\* filter is rejected and a text that passes it is scored 0.7 x job + 0.3 x
\* average.
C30_ModoPorFornecimento ==
    (Analisado /\ VagaFornecida /\ resultado.status # "Erro") =>
        \A i \in 1..NumAnexos :
            /\ AbaixoDoFiltro(i) =>
                  /\ resultado.anexos_analisados[i].pontuacao = 0
                  /\ SoRejeicao(resultado.anexos_analisados[i])
            /\ PassaNoFiltro(i) =>
                  /\ TemCategorias(resultado.anexos_analisados[i])
                  /\ "palavras_chave_vaga" \in DOMAIN resultado.anexos_analisados[i].detalhes
                  /\ EhPonderada(resultado.anexos_analisados[i].pontuacao,
                                 ScoreDaVaga(i),
                                 SomaDasCategorias(resultado.anexos_analisados[i].detalhes))

----------------------------------------------------------------------------
(* Properties of _calcular_score_categoria *)

\* _calcular_score_categoria has returned
Calculada == categoria # SemResultado

\* the keyword is among the keywords found
Achada(keyword) == Pertence(keyword, categoria.palavras_encontradas)

\* the text of the call contains the word, both without diacritics and case
TextoContem(palavra) ==
    Contem(normalizar_texto(chamada.texto), normalizar_texto(palavra))

\* the keyword is an abbreviation and the text contains one of the terms
\* registered for it
PorExpansao(keyword) ==
    \E i \in 1..Len(abreviacoes) :
        /\ abreviacoes[i].abrev = normalizar_texto(keyword)
        /\ \E j \in 1..Len(abreviacoes[i].termos) :
              TextoContem(abreviacoes[i].termos[j])

\* the keyword is a term registered for an abbreviation the text contains
PorAbreviacao(keyword) ==
    \E i \in 1..Len(abreviacoes) :
        /\ \E j \in 1..Len(abreviacoes[i].termos) :
              normalizar_texto(abreviacoes[i].termos[j]) = normalizar_texto(keyword)
        /\ TextoContem(abreviacoes[i].abrev)

\* C12: the matching of abbreviations goes both ways: a keyword that is an
\* abbreviation is found in a text containing one of its registered terms, a
\* keyword that is a registered term of an abbreviation is found in a text
\* containing the abbreviation, and a keyword is found in no other way than
\* by itself, by its own terms or by its own abbreviation.
C12_AbreviacoesNosDoisSentidos ==
    Calculada =>
        \A n \in 1..Len(chamada.keywords) :
            Achada(chamada.keywords[n]) <=>
                \/ TextoContem(chamada.keywords[n])
                \/ PorExpansao(chamada.keywords[n])
                \/ PorAbreviacao(chamada.keywords[n])

\* the keyword "tecnologia da informação" was found in the text "suporte de
\* ti", which does not contain it
C12_Testemunha ==
    /\ Calculada
    /\ chamada.keywords = SoExpansaoTI
    /\ chamada.texto = TextoComTI
    /\ ~TextoContem(chamada.keywords[1])
    /\ categoria.palavras_encontradas = SoExpansaoTI

\* the keyword matches the text: by itself, by one of its registered terms
\* or by its abbreviation
Corresponde(keyword) ==
    TextoContem(keyword) \/ PorExpansao(keyword) \/ PorAbreviacao(keyword)

\* the number of keywords of the list that match, a repeated keyword counted
\* as often as the list holds it
NumCorrespondentes ==
    Cardinality({n \in 1..Len(chamada.keywords) : Corresponde(chamada.keywords[n])})

\* C13: the score of a category is min(10, 10 x matched / total), matched
\* being the number of keywords of the list that match and total the length
\* of the list, and 0 for the empty list; so it lies within 0 and 10 and is
\* 10 when every keyword of the list matches, also when the list holds a
\* keyword more than once.
C13_ScoreDaCategoria ==
    Calculada =>
        /\ Len(chamada.keywords) = 0 => categoria.pontuacao.num = 0
        /\ Len(chamada.keywords) > 0 =>
              categoria.pontuacao.num * Len(chamada.keywords) =
                  100 * NumCorrespondentes * categoria.pontuacao.den
        /\ categoria.pontuacao.num >= 0
        /\ categoria.pontuacao.num <= 100 * categoria.pontuacao.den

----------------------------------------------------------------------------
(* Properties of buscar_emails_com_anexos *)

\* the message of the latest pass of the loop
NumAtual == message_list[posicao]

TipoAtual == servidor.caixa[NumAtual]

\* the latest pass fetched the full message
BaixouCompleta ==
    /\ posicao > 0
    /\ \E j \in 1..Len(comandos) : comandos[j].comando = "RFC822"

\* the provider sent no structure for the message
SemEstrutura(tipo) == Mensagens[tipo].resposta \in {"erro", "None", "curta"}

\* C15: a full-message fetch (RFC822) of a message is issued only after the
\* structure probe (BODYSTRUCTURE) of that message, and only if the probe
\* passed the pre-filter; a message that declares no attachment part, or whose
\* structure could not be obtained, is never fetched in full.
C15_SoBaixaAposSonda ==
    BaixouCompleta =>
        /\ comandos = <<Sonda(NumAtual), Download(NumAtual)>>
        /\ PreFiltro(EstruturaLida(Mensagens[TipoAtual], NumAtual))
        /\ ~SemEstrutura(TipoAtual)
        /\ TemAnexo(TipoAtual)

\* the media types of pdf, msword/document and plain text
TiposDeCurriculo ==
    {"application/pdf", "application/msword",
     "application/vnd.openxmlformats-officedocument.wordprocessingml.document",
     "text/plain"}

\* the message declares an attachment part of one of the media types
DeclaraAnexoDeCurriculo(tipo) ==
    \E i \in 1..Len(Mensagens[tipo].partes) :
        /\ Mensagens[tipo].partes[i].disposicao = "attachment"
        /\ Mensagens[tipo].partes[i].tipo \in TiposDeCurriculo

\* C16: the pre-filter passes a message (so that it is fetched in full) only
\* if the message declares an attachment part whose own media type is pdf,
\* msword/document or plain text; a message whose attachment parts all have
\* other media types is skipped without a full download.
C16_PreFiltroPorTipo == BaixouCompleta => DeclaraAnexoDeCurriculo(TipoAtual)

\* the first search of the run, by mode
PrimeiraBusca == IF todos_emails THEN "HAS ATTACHMENT" ELSE "SINCE HAS ATTACHMENT"

UltimaBusca == buscas[Len(buscas)]

\* the provider rejected the first search or answered it with nothing
PrimeiraSemResultado ==
    \/ Rejeita(servidor, PrimeiraBusca)
    \/ Pesquisar(servidor, PrimeiraBusca) = <<>>

\* C17: the first search asks for attachments (together with the date in the
\* mode of the last days); if the provider rejects it or answers with nothing,
\* a date-only or an ALL search follows, and when the provider answers that
\* search the run goes on with its numbers: the list the loop goes through is
\* made of them, most recent first, every one of the list is gone through, and
\* the run returns a list.
C17_BuscaAlternativa ==
    buscas # <<>> =>
        /\ buscas[1] = PrimeiraBusca
        /\ PrimeiraSemResultado =>
              /\ Len(buscas) >= 2
              /\ \A i \in 2..Len(buscas) : buscas[i] \in {"SINCE", "ALL"}
              /\ ~Rejeita(servidor, UltimaBusca) =>
                    /\ message_numbers = Pesquisar(servidor, UltimaBusca)
                    /\ Len(message_list) <= Len(message_numbers)
                    /\ \A i \in 1..Len(message_list) :
                           message_list[i] = message_numbers[Len(message_numbers) + 1 - i]
                    /\ etapa = "fim" =>
                           /\ retorno.tipo = "lista"
                           /\ posicao = Len(message_list)
                           /\ message_numbers # <<>> => message_list # <<>>

\* the search with attachments of the mode of the last days was rejected, the
\* ALL search was answered, and the run returned a curriculum
C17_Testemunha ==
    /\ etapa = "fim"
    /\ ~todos_emails
    /\ servidor.anexos = "rejeita"
    /\ buscas = <<"SINCE HAS ATTACHMENT", "ALL">>
    /\ retorno.valor # <<>>

\* the smaller of two numbers
MenorNumero(a, b) == IF a < b THEN a ELSE b

\* C18: when the candidates come from an ALL search, the run goes through the
\* last 1000 numbers of the answer at most, and issues no more than 1000
\* structure probes.
C18_LimiteDeTodos ==
    buscas # <<>> /\ UltimaBusca = "ALL" /\ etapa \in {"laco", "fim"} =>
        /\ Len(message_list) = MenorNumero(Len(message_numbers), LimiteTodos)
        /\ \A i \in 1..Len(message_list) :
               message_list[i] = message_numbers[Len(message_numbers) + 1 - i]
        /\ sondagens <= LimiteTodos

\* C19: the messages are probed, fetched and returned most recent first: the
\* list the loop goes through and the list returned are in descending order of
\* the provider's answer (which is in ascending order of the numbers), every
\* command of a pass is for the message of that pass, and every message of the
\* list is probed once.
C19_MaisRecentesPrimeiro ==
    /\ \A i \in 1..(Len(message_list) - 1) : message_list[i] > message_list[i + 1]
    /\ \A i \in 1..(Len(emails_processados) - 1) :
           emails_processados[i].numero > emails_processados[i + 1].numero
    /\ \A i \in 1..(Len(retorno.valor) - 1) :
           retorno.valor[i].numero > retorno.valor[i + 1].numero
    /\ posicao > 0 => \A j \in 1..Len(comandos) : comandos[j].num = NumAtual
    /\ sondagens = posicao

\* a run over three messages returned two of them
C19_Testemunha ==
    /\ etapa = "fim"
    /\ posicao = 3
    /\ Len(retorno.valor) = 2
    /\ retorno.valor[1].numero = 3
    /\ retorno.valor[2].numero = 1

\* the kinds of message a pass of the loop collects
Coletaveis == {tipo \in Tipos : ProcessarMensagem(Mensagens[tipo], 1, 0).coletados # <<>>}

\* the kinds of message whose pass enters the except of line 226
ComErro == {tipo \in Tipos : ProcessarMensagem(Mensagens[tipo], 1, 0).erro}

\* C20: an error in the processing of a message (probe, full fetch, parsing)
\* is caught: the messages collected so far are those of the list gone through
\* that can be collected, whatever errors came between them, the run ends only
\* when the list is through, and it returns all of them.  An attachment that
\* cannot be read ends the extraction of its message only.
C20_ErroNaoInterrompe ==
    etapa \in {"laco", "fim"} /\ message_list # <<>> =>
        /\ LET Coletavel(num) == servidor.caixa[num] \in Coletaveis
           IN  [i \in 1..Len(emails_processados) |-> emails_processados[i].numero]
                 = SelectSeq(SubSeq(message_list, 1, posicao), Coletavel)
        /\ etapa = "fim" =>
              /\ posicao = Len(message_list)
              /\ retorno = Retorna(emails_processados)

\* a run over a curriculum, a message whose full fetch raises and another
\* curriculum returned both curricula
C20_Testemunha ==
    /\ etapa = "fim"
    /\ servidor.caixa = <<"cv_doc", "download_falha", "cv_pdf">>
    /\ "download_falha" \in ComErro
    /\ message_list = <<3, 2, 1>>
    /\ Len(retorno.valor) = 2

\* C29: in the last-N-days mode every message probed or returned belongs to
\* the answer of a search restricted to the date window: its number is not
\* below the number of the oldest message of the window, on every path
\* through the alternative searches.
C29_DentroDaJanela ==
    ~todos_emails =>
        /\ \A i \in 1..Len(message_list) : message_list[i] >= servidor.desde
        /\ posicao > 0 => \A j \in 1..Len(comandos) : comandos[j].num >= servidor.desde
        /\ \A i \in 1..Len(retorno.valor) : retorno.valor[i].numero >= servidor.desde

\* C23: a run changes nothing in the mailbox: no message gets the \Seen flag
\* (every message was unread before the run), and the run issues no command
\* other than the two FETCH commands on a message, so that none is removed.
C23_CaixaIntacta ==
    /\ lidas = {}
    /\ \A j \in 1..Len(comandos) : comandos[j].comando \in {"BODYSTRUCTURE", "RFC822"}

\* the temporary file at the path of the i-th attachment of the a-th
\* collected message holds the bytes of that attachment
ArquivoProprio(a, i) ==
    \E f \in temporarios :
        /\ f.caminho = emails_processados[a].anexos[i].caminho_temp
        /\ f.numero = emails_processados[a].numero
        /\ f.nome = emails_processados[a].anexos[i].nome_original

\* C28: any two attachments extracted within a run have distinct temporary
\* paths, and the file at the path of each holds its own bytes (none was
\* overwritten by the extraction of another).
C28_CaminhosDistintos ==
    \A a \in 1..Len(emails_processados) :
        \A i \in 1..Len(emails_processados[a].anexos) :
            /\ ArquivoProprio(a, i)
            /\ \A b \in 1..Len(emails_processados) :
                   \A j \in 1..Len(emails_processados[b].anexos) :
                       (a # b \/ i # j) =>
                           emails_processados[a].anexos[i].caminho_temp #
                               emails_processados[b].anexos[j].caminho_temp

----------------------------------------------------------------------------
(* Properties of the client's session *)

\* C21: a run never raises past its entry point: in every state of the
\* client (never connected, connected, connection failed, disconnected)
\* buscar_emails_com_anexos returns a list, and conectar returns True or
\* False.
C21_NuncaLevanta ==
    /\ retorno.tipo # "Exception"
    /\ conexao.op = "conectar" => conexao.ret \in {"True", "False"}

\* C27: the client holds a session only if the most recent call of conectar
\* or desconectar was a conectar that returned True; a run after a conectar
\* that returned False ends as the run of a client that is not connected.
C27_SessaoSoAutenticada ==
    /\ servidor.conectado => conexao = Conexao("conectar", "True")
    /\ (conexao = Conexao("conectar", "False") /\ etapa = "fim") => retorno = Levanta

----------------------------------------------------------------------------
(* Properties of the stop of a triage run *)

\* the number of the last message of the batch in progress when posicao
\* messages are through
FimDoLote(pos) == ((pos \div TamanhoDoLote) + 1) * TamanhoDoLote

\* C22: once the stop is requested (triagem_running set to False by the stop
\* button) the run goes through no message of a batch after the one in
\* progress.
C22_ParaNoFimDoLote ==
    parada # SemParada => posicao <= FimDoLote(parada)

============================================================================
